---- MODULE Spec2Model ----
(***************************************************************************)
(* Model of the proxy dispatch and envelope-normalisation layer of         *)
(* solana-agent-kit-py: the encryption handshake                           *)
(* (utils/agentipy_proxy/utils.py), the proxy-backed managers              *)
(* (tools/use_3land.py, use_adrena.py, use_flash.py, use_drift.py,         *)
(* use_alldomains.py), the direct-SDK managers (tools/use_backpack.py,     *)
(* use_debridge.py), the Jito manager (tools/use_jito.py), the facade      *)
(* (agent/__init__.py) and the agent tool wrappers (langchain/__init__.py).*)
(*                                                                         *)
(* Python values are tagged records, so that values of different Python    *)
(* types can be compared: None, str, numbers, bool, list, dict.  A dict    *)
(* with string keys is a TLA+ function from its key set to values.         *)
(***************************************************************************)
EXTENDS Integers, Sequences, FiniteSets, TLC

\* ------------------------------------------------------------------ bounds
\* number of call slots (activations of a manager method that can exist)
NumSlots == 2
\* number of manager calls started in one behaviour
MaxCalls == 2
\* number of tool invocations in one behaviour
MaxToolRuns == 1
\* longest private key string handed to encrypt_private_key on its own
MaxKeyLen == 33

Slots == 1..NumSlots

\* ----------------------------------------------------------- Python values
None == [t |-> "None"]
PyStr(s) == [t |-> "str", s |-> s]
PyNum(n) == [t |-> "num", n |-> n]
PyBool(b) == [t |-> "bool", b |-> b]
PyList(l) == [t |-> "list", l |-> l]
PyDict(d) == [t |-> "dict", d |-> d]
PyTrue == PyBool(TRUE)
PyFalse == PyBool(FALSE)
\* the empty dict / a dict from a TLA+ function
EmptyMap == [k \in {} |-> None]

\* Python truthiness, as used by `not x`, `all([...])` and `if x:`
Truthy(v) ==
    CASE v.t = "None" -> FALSE
      [] v.t = "str" -> v.s # ""
      [] v.t = "num" -> v.n # 0
      [] v.t = "bool" -> v.b
      [] v.t = "list" -> Len(v.l) > 0
      [] v.t = "dict" -> DOMAIN v.d # {}
      [] OTHER -> TRUE

\* all([...]) over a sequence of values
PyAll(vs) == \A i \in 1..Len(vs) : Truthy(vs[i])

\* dict.get(key) and dict.get(key, default)
DictGet(d, key) == IF key \in DOMAIN d THEN d[key] ELSE None
DictGetDefault(d, key, default) == IF key \in DOMAIN d THEN d[key] ELSE default

\* merge of two dicts with disjoint or overriding keys: {**a, **b}
DictMerge(a, b) == [k \in DOMAIN a \cup DOMAIN b |-> IF k \in DOMAIN b THEN b[k] ELSE a[k]]

\* ------------------------------------------------- outcomes and exceptions
\* the outcome of a piece of Python code: it returns a value or raises
Ret(v) == [k |-> "return", v |-> v]
Raise(cls, msg) == [k |-> "raise", cls |-> cls, msg |-> msg]

\* the exception classes that occur, with their base classes
\* (requests.exceptions.JSONDecodeError derives from RequestException and
\* from json.JSONDecodeError, a ValueError; binascii.Error is a ValueError)
Bases(cls) ==
    CASE cls = "ConnectionError" -> {"ConnectionError", "RequestException", "Exception"}
      [] cls = "HTTPError" -> {"HTTPError", "RequestException", "Exception"}
      [] cls = "JSONDecodeError" -> {"JSONDecodeError", "RequestException", "ValueError", "Exception"}
      [] cls = "binascii.Error" -> {"binascii.Error", "ValueError", "Exception"}
      [] cls = "ValueError" -> {"ValueError", "Exception"}
      [] OTHER -> {cls, "Exception"}

IsInstance(exc, base) == base \in Bases(exc.cls)

\* str(exception)
StrOfExc(exc) == exc.msg

\* ------------------------------------------------------------ HTTP replies
\* what requests.post can produce: it raises (transport failure) or returns
\* a response with a status and a body; the body is JSON text or not
NotJson == [t |-> "notjson"]
Response(status, body) == [k |-> "response", status |-> status, body |-> body]
TransportFailure == Raise("ConnectionError", "connection refused")

\* response.raise_for_status()
raise_for_status(resp) ==
    IF resp.status >= 400
    THEN Raise("HTTPError", IF resp.status >= 500 THEN "500 Server Error" ELSE "404 Client Error")
    ELSE Ret(None)

\* response.json()
json(resp) ==
    IF resp.body = NotJson
    THEN Raise("JSONDecodeError", "Expecting value")
    ELSE Ret(resp.body)

\* ------------------------------------------------------ encryption handshake
\* a str is a sequence of code points; bytes are a sequence of 0..255
BlockSize == 16

\* str.encode(): UTF-8, written out for code points below 2048, each code
\* point giving its one or two bytes in order
RECURSIVE encode(_)
encode(str) ==
    IF str = <<>> THEN <<>>
    ELSE IF Len(str) = 1
    THEN LET ch == str[1]
         IN IF ch < 128 THEN <<ch>> ELSE <<192 + (ch \div 64), 128 + (ch % 64)>>
    ELSE LET mid == Len(str) \div 2
         IN encode(SubSeq(str, 1, mid)) \o encode(SubSeq(str, mid + 1, Len(str)))

\* the values the key-issuance endpoint puts in its body: base64 text of some
\* bytes (here: which key or IV, and its length), or something else
B64(what, id, len) == [t |-> "b64", what |-> what, id |-> id, len |-> len]

\* base64.b64decode(v)
b64decode(v) ==
    CASE v.t = "b64" -> Ret([what |-> v.what, id |-> v.id, len |-> v.len])
      [] v.t = "str" -> Raise("binascii.Error", "Incorrect padding")
      [] OTHER -> Raise("TypeError", "argument should be a bytes-like object or ASCII string")

\* data[key] on the parsed body
Subscript(data, key) ==
    IF data.t # "dict" THEN Raise("TypeError", "indices must be integers")
    ELSE IF key \notin DOMAIN data.d THEN Raise("KeyError", "'" \o key \o "'")
    ELSE Ret(data.d[key])

\* get_encryption_key(), given what requests.post produced: the tuple element
\* expressions are evaluated left to right and the first failure propagates
get_encryption_key(http) ==
    IF http.k = "raise" THEN http
    ELSE LET data == json(http)
         IN IF data.k = "raise" THEN data
            ELSE LET rid == Subscript(data.v, "requestId")
                     ek == Subscript(data.v, "encryptionKey")
                     iv == Subscript(data.v, "iv")
                 IN IF rid.k = "raise" THEN rid
                    ELSE IF ek.k = "raise" THEN ek
                    ELSE IF b64decode(ek.v).k = "raise" THEN b64decode(ek.v)
                    ELSE IF iv.k = "raise" THEN iv
                    ELSE IF b64decode(iv.v).k = "raise" THEN b64decode(iv.v)
                    ELSE Ret([request_id |-> rid.v,
                              encryption_key |-> b64decode(ek.v).v,
                              iv |-> b64decode(iv.v).v])

\* faulty variant of padding_length: a key whose length is a multiple of 16
\* gets no padding
padding_length_zeroWhenAligned(private_key) ==
    (BlockSize - (Len(private_key) % BlockSize)) % BlockSize

\* 16 - (len(private_key) % 16)
padding_length(private_key) == BlockSize - (Len(private_key) % BlockSize)

\* faulty variant of padded_private_key: the padding characters are zeros
padded_private_key_zeros(private_key) ==
    private_key \o [i \in 1..padding_length(private_key) |-> 0]

\* private_key + chr(padding_length) * padding_length
padded_private_key(private_key) ==
    private_key \o [i \in 1..padding_length(private_key) |-> padding_length(private_key)]

\* AES-CBC under the issued key and IV, then base64: a symbolic ciphertext
\* that names the key, the IV and the plaintext bytes it was made from
Ciphertext(key, iv, plain) == [t |-> "ct", key |-> key, iv |-> iv, plain |-> plain]
\* faulty variant of encrypt_private_key: the handshake material of the first request
\* is kept and used again for every later call
encrypt_private_key_cached(private_key, http) ==
    LET got == get_encryption_key(http)
    IN IF got.k = "raise" THEN got
       ELSE Ret(PyDict([requestId |-> [t |-> "rid", n |-> 1],
                        encryptedPrivateKey |->
                            Ciphertext([what |-> "key", id |-> 1, len |-> 32],
                                       [what |-> "iv", id |-> 1, len |-> 16],
                                       encode(padded_private_key(private_key)))]))

\* faulty variant of encrypt_private_key: a failed key-issuance step is swallowed and
\* an envelope without key material is returned
encrypt_private_key_lenient(private_key, http) ==
    LET got == get_encryption_key(http)
    IN IF got.k = "raise"
       THEN Ret(PyDict([requestId |-> None, encryptedPrivateKey |-> None]))
       ELSE Ret(PyDict([requestId |-> got.v.request_id,
                        encryptedPrivateKey |->
                            Ciphertext(got.v.encryption_key, got.v.iv,
                                       encode(padded_private_key(private_key)))]))

\* encrypt_private_key(private_key), given what the key-issuance POST produced
encrypt_private_key(private_key, http) ==
    LET got == get_encryption_key(http)
    IN IF got.k = "raise" THEN got
       ELSE IF got.v.encryption_key.len \notin {16, 24, 32}
            THEN Raise("ValueError", "Invalid key size for AES")
       ELSE IF got.v.iv.len # BlockSize
            THEN Raise("ValueError", "Invalid IV size for CBC")
       ELSE LET plain == encode(padded_private_key(private_key))
            IN IF Len(plain) % BlockSize # 0
               THEN Raise("ValueError", "The length of the provided data is not a multiple of the block length")
               ELSE Ret(PyDict([requestId |-> got.v.request_id,
                                encryptedPrivateKey |->
                                    Ciphertext(got.v.encryption_key, got.v.iv, plain)]))

\* ------------------------------------------------------------ agent context
\* SolanaAgentKit.__init__ accepts only a private key that
\* Keypair.from_base58_string can read: 64 bytes in base58, 87 or 88 ASCII
\* characters.  Two such keys, told apart by their characters.
Base58Key(n, ch) == [i \in 1..n |-> ch]
PrivateKeys == {Base58Key(87, 52), Base58Key(88, 53)}

\* Keypair.from_base58_string(private_key) and wallet.pubkey()
from_base58_string(private_key) == [t |-> "keypair", secret |-> private_key]
pubkey(wallet) == [t |-> "pubkey", of |-> wallet.secret]

\* the attributes __init__ sets, for a private key and the defaults of the
\* other arguments (Backpack credentials given)
SolanaAgentKit(private_key) ==
    [private_key |-> private_key,
     wallet |-> from_base58_string(private_key),
     wallet_address |-> pubkey(from_base58_string(private_key)),
     rpc_url |-> PyStr("https://api.mainnet-beta.solana.com"),
     openai_api_key |-> PyStr(""),
     helius_api_key |-> PyStr(""),
     helius_rpc_url |-> PyStr(""),
     quicknode_rpc_url |-> PyStr(""),
     jito_block_engine_url |-> PyStr(""),
     base_proxy_url |-> "BASE_PROXY_URL",
     api_version |-> "API_VERSION",
     backpack_api_key |-> PyStr("bp-key"),
     backpack_api_secret |-> PyStr("bp-secret"),
     jito_uuid |-> None]

Agents == {SolanaAgentKit(k) : k \in PrivateKeys}

\* a record written to the logger: its level, the fixed text and the value
\* put into the text
LogRecord(level, text, value) == [level |-> level, text |-> text, value |-> value]
\* f"{self.private_key}": the text of a private key
PyKey(chars) == [t |-> "key", chars |-> chars]

\* what __init__ writes to the logger: with generate_wallet it logs the public
\* key and the private key of the new wallet
ConstructorLog(kit, generate_wallet) ==
    IF generate_wallet
    THEN <<LogRecord("info", "New Wallet Generated:", None),
           LogRecord("info", "Public Key: ", kit.wallet_address),
           LogRecord("info", "Private Key: ", PyKey(kit.private_key))>>
    ELSE <<>>

\* the strings encrypt_private_key is called with when it is called on its
\* own: i letters 'A' followed by j copies of a second character, which is
\* 'e' with an acute accent (two bytes in UTF-8) or the control character 1,
\* and the keys of the agents
TailChars == {233, 1}
KeyString(i, j, ch) == [k \in 1..(i + j) |-> IF k <= i THEN 65 ELSE ch]
KeyStrings ==
    {KeyString(q[1], q[2], ch) :
        q \in {r \in (0..MaxKeyLen) \X (0..MaxKeyLen) : r[1] + r[2] <= MaxKeyLen},
        ch \in TailChars}
    \cup PrivateKeys

\* the key-issuance endpoint and a proxy operation endpoint
KeyUrl == <<"BASE_PROXY_URL", "API_VERSION", "security", "get-encryption-key">>
ProxyUrl(agent, domain, operation) == <<agent.base_proxy_url, agent.api_version, domain, operation>>

\* -------------------------------------------------- proxy-backed operations
ThreeLandOps == {"create_3land_collection", "create_3land_nft"}
AdrenaOps == {"close_perp_trade_short"}
FlashOps == {"flash_open_trade"}
DriftOps == {"create_drift_user_account", "check_if_drift_account_exists", "drift_swap_spot_token"}
AllDomainsOps == {"resolve_all_domains", "get_owned_domains_for_tld", "get_all_domains_tlds",
                  "get_owned_all_domains"}
\* the managers whose methods end in the {success, ...} envelope
EnvelopeOps == ThreeLandOps \cup AdrenaOps \cup FlashOps \cup DriftOps
ProxyOps == EnvelopeOps \cup AllDomainsOps
\* direct-SDK operations (BackpackManager, DeBridgeManager)
BackpackOps == {"get_account_balances", "get_collateral_info", "get_account_deposits",
                "get_users_open_orders", "execute_order"}
DeBridgeOps == {"create_debridge_transaction"}
SdkOps == BackpackOps \cup DeBridgeOps
Ops == ProxyOps \cup SdkOps

\* the arguments a caller can pass, per operation (parameter name |-> value)
ArgsOf(o) ==
    CASE o = "create_3land_collection" ->
            [collection_symbol : {None, PyStr(""), PyStr("SYM")},
             collection_name : {PyStr(""), PyStr("Name")},
             collection_description : {None, PyStr("Desc")},
             main_image_url : {None, PyStr("img")},
             cover_image_url : {None},
             is_devnet : {PyFalse}]
      [] o = "create_3land_nft" ->
            [item_name : {PyStr(""), PyStr("Item")},
             seller_fee : {None, PyNum(0), PyNum(5)},
             item_amount : {PyNum(0), PyNum(1)},
             item_symbol : {PyStr("IT")},
             item_description : {PyStr("Desc")},
             traits : {PyList(<<>>), PyList(<<PyStr("trait")>>)},
             price : {None},
             main_image_url : {None},
             cover_image_url : {None},
             spl_hash : {None},
             pool_name : {None},
             is_devnet : {PyFalse},
             with_pool : {PyFalse}]
      [] o = "close_perp_trade_short" ->
            [price : {None, PyNum(0), PyNum(1)},
             trade_mint : {None, PyStr(""), PyStr("Mint")}]
      [] o = "flash_open_trade" ->
            [token : {PyStr(""), PyStr("SOL")},
             side : {PyStr("buy")},
             collateral_usd : {PyNum(0), PyNum(1)},
             leverage : {None, PyNum(2)}]
      [] o = "create_drift_user_account" ->
            [deposit_amount : {None, PyNum(0), PyNum(1)},
             deposit_symbol : {PyStr(""), PyStr("SOL")}]
      [] o = "drift_swap_spot_token" ->
            [from_symbol : {PyStr(""), PyStr("SOL")},
             to_symbol : {PyStr("USDC")},
             slippage : {None, PyNum(1)},
             to_amount : {None, PyNum(0), PyNum(1)},
             from_amount : {None, PyNum(0), PyNum(1)}]
      [] o = "resolve_all_domains" -> [domain : {None, PyStr(""), PyStr("name.sol")}]
      [] o = "get_owned_domains_for_tld" -> [tld : {None, PyStr(""), PyStr("sol")}]
      [] o = "get_owned_all_domains" ->
            [owner : {None, PyStr(""), PyStr("not-base58"), PyStr("Owner58")}]
      [] o = "get_collateral_info" -> [sub_account_id : {None}]
      [] o = "get_account_deposits" ->
            [fromTimestamp : {None}, toTimestamp : {None},
             limit : {PyNum(100)}, offset : {PyNum(0)}]
      [] o = "get_users_open_orders" ->
            [symbol : {None, PyStr(""), PyStr("SOL_USDC")},
             client_id : {None}, order_id : {None}]
      [] o = "execute_order" ->
            [order_type : {None, PyStr("Limit")},
             side : {PyStr("Bid")},
             symbol : {PyStr(""), PyStr("SOL_USDC")},
             price : {None, PyStr("1.5")},
             quantity : {PyStr("2")}]
      [] o = "create_debridge_transaction" ->
            [src_chain_id : {PyStr(""), PyStr("7565164")},
             src_chain_token_in : {PyStr("TokenIn")},
             src_chain_token_in_amount : {PyStr("1000")},
             dst_chain_id : {PyStr("1")},
             dst_chain_token_out : {PyStr("TokenOut")},
             dst_chain_token_out_recipient : {PyStr(""), PyStr("Recipient")},
             src_chain_order_authority_address : {PyStr(""), PyStr("SrcAuthority")},
             dst_chain_order_authority_address : {None, PyStr("DstAuthority")},
             affiliate_fee_percent : {PyStr("0")},
             affiliate_fee_recipient : {PyStr("")},
             prepend_operating_expenses : {PyTrue},
             dst_chain_token_out_amount : {PyStr("auto")}]
      [] OTHER -> {EmptyMap}

\* the strings solders' Pubkey accepts; str(PublicKey(s)) gives s back
ValidPubkeys == {"Owner58"}
PublicKey(v) ==
    IF v.t = "str" /\ v.s \in ValidPubkeys
    THEN Ret(v)
    ELSE Raise("ValueError", "Invalid Base58 string")
\* faulty variant of ValidationCheck: drift_swap_spot_token checks its symbols
\* but not how many of the two amounts were supplied
ValidationCheck_noAmountCheck(o, a) ==
    CASE o = "drift_swap_spot_token" ->
            IF ~PyAll(<<a.from_symbol, a.to_symbol>>)
            THEN Raise("ValueError", "From symbol and to symbol are required.")
            ELSE Ret(None)
      [] OTHER -> Ret(None)
\* faulty variant of ValidationCheck: no method checks its arguments before the
\* handshake
ValidationCheck_none(o, a) == Ret(None)

\* the checks a method makes before the handshake: Ret(None) or the raise
ValidationCheck(o, a) ==
    CASE o = "create_3land_collection" ->
            IF ~PyAll(<<a.collection_symbol, a.collection_name, a.collection_description>>)
            THEN Raise("ValueError", "Collection symbol, name, and description are required.")
            ELSE Ret(None)
      [] o = "create_3land_nft" ->
            IF ~PyAll(<<a.item_name, a.seller_fee, a.item_amount, a.item_symbol,
                        a.item_description, a.traits>>)
            THEN Raise("ValueError", "Item name, seller fee, amount, symbol, description, and traits are required.")
            ELSE Ret(None)
      [] o = "close_perp_trade_short" ->
            IF ~PyAll(<<a.price, a.trade_mint>>)
            THEN Raise("ValueError", "Price and trade_mint are required.")
            ELSE Ret(None)
      [] o = "flash_open_trade" ->
            IF ~PyAll(<<a.token, a.side, a.collateral_usd, a.leverage>>)
            THEN Raise("ValueError", "Token, side, collateral_usd, and leverage are required.")
            ELSE Ret(None)
      [] o = "create_drift_user_account" ->
            IF ~PyAll(<<a.deposit_amount, a.deposit_symbol>>)
            THEN Raise("ValueError", "Deposit amount and deposit symbol are required.")
            ELSE Ret(None)
      [] o = "drift_swap_spot_token" ->
            IF ~PyAll(<<a.from_symbol, a.to_symbol>>)
            THEN Raise("ValueError", "From symbol and to symbol are required.")
            ELSE IF (a.to_amount = None /\ a.from_amount = None)
                    \/ (a.to_amount # None /\ a.from_amount # None)
            THEN Raise("ValueError", "Provide either 'from_amount' or 'to_amount', but not both.")
            ELSE Ret(None)
      [] o = "resolve_all_domains" ->
            IF ~Truthy(a.domain) THEN Raise("ValueError", "Domain is required.") ELSE Ret(None)
      [] o = "get_owned_domains_for_tld" ->
            IF ~Truthy(a.tld) THEN Raise("ValueError", "TLD is required.") ELSE Ret(None)
      [] o = "get_owned_all_domains" ->
            IF ~Truthy(a.owner) THEN Raise("ValueError", "Owner is required.") ELSE Ret(None)
      [] o = "create_debridge_transaction" ->
            IF ~Truthy(a.dst_chain_token_out_recipient)
            THEN Raise("ValueError", "Destination chain token recipient is required")
            ELSE IF ~Truthy(a.src_chain_order_authority_address)
                    \/ ~Truthy(a.dst_chain_order_authority_address)
            THEN Raise("ValueError", "Order authority addresses are required")
            ELSE Ret(None)
      [] OTHER -> Ret(None)

\* whether the checks stand inside the method's try block: those of
\* create_debridge_transaction stand before it
ValidatesInTry(o) == o \notin DeBridgeOps

\* the first four payload entries of every proxied method
HandshakeFields(agent, epk) ==
    [requestId |-> epk.d.requestId,
     encrypted_private_key |-> epk.d.encryptedPrivateKey,
     rpc_url |-> agent.rpc_url,
     open_api_key |-> agent.openai_api_key]
\* faulty variant of swap_params: both amounts go into the payload
swap_params_both(a) ==
    [fromSymbol |-> a.from_symbol, toSymbol |-> a.to_symbol, slippage |-> a.slippage,
     toAmount |-> a.to_amount, fromAmount |-> a.from_amount]

\* drift_swap_spot_token: exactly one of the two amounts goes into the payload
swap_params(a) ==
    DictMerge([fromSymbol |-> a.from_symbol, toSymbol |-> a.to_symbol, slippage |-> a.slippage],
              IF a.to_amount # None THEN [toAmount |-> a.to_amount]
                                    ELSE [fromAmount |-> a.from_amount])

\* the operation's own payload entries, built between the handshake and the
\* POST; get_owned_all_domains converts owner there and can raise
OperationFields(o, a) ==
    CASE o = "create_3land_collection" ->
            Ret([collectionSymbol |-> a.collection_symbol,
                 collectionName |-> a.collection_name,
                 collectionDescription |-> a.collection_description,
                 mainImageUrl |-> a.main_image_url,
                 coverImageUrl |-> a.cover_image_url,
                 isDevnet |-> a.is_devnet])
      [] o = "create_3land_nft" ->
            Ret([itemName |-> a.item_name,
                 sellerFee |-> a.seller_fee,
                 itemAmount |-> a.item_amount,
                 itemSymbol |-> a.item_symbol,
                 itemDescription |-> a.item_description,
                 traits |-> a.traits,
                 price |-> a.price,
                 mainImageUrl |-> a.main_image_url,
                 coverImageUrl |-> a.cover_image_url,
                 splHash |-> a.spl_hash,
                 poolName |-> a.pool_name,
                 isDevnet |-> a.is_devnet,
                 withPool |-> a.with_pool])
      [] o = "close_perp_trade_short" ->
            Ret([price |-> a.price, tradeMint |-> a.trade_mint])
      [] o = "flash_open_trade" ->
            Ret([token |-> a.token, side |-> a.side,
                 collateralUsd |-> a.collateral_usd, leverage |-> a.leverage])
      [] o = "create_drift_user_account" ->
            Ret([depositAmount |-> a.deposit_amount, depositSymbol |-> a.deposit_symbol])
      [] o = "drift_swap_spot_token" -> Ret(swap_params(a))
      [] o = "resolve_all_domains" -> Ret([domain |-> a.domain])
      [] o = "get_owned_domains_for_tld" -> Ret([tld |-> a.tld])
      [] o = "get_owned_all_domains" ->
            IF PublicKey(a.owner).k = "raise" THEN PublicKey(a.owner)
            ELSE Ret([owner |-> PublicKey(a.owner).v])
      [] OTHER -> Ret(EmptyMap)

\* the URL path of each operation
Endpoint(agent, o) ==
    CASE o = "create_3land_collection" -> ProxyUrl(agent, "nft", "3land-create-collection")
      [] o = "create_3land_nft" -> ProxyUrl(agent, "nft", "3land-create-nft")
      [] o = "close_perp_trade_short" -> ProxyUrl(agent, "adrena", "close-perp-trade-short")
      [] o = "flash_open_trade" -> ProxyUrl(agent, "flash", "flash-open-trade")
      [] o = "create_drift_user_account" -> ProxyUrl(agent, "drift", "create-drift-user-account")
      [] o = "check_if_drift_account_exists" -> ProxyUrl(agent, "drift", "check-if-drift-account-exists")
      [] o = "drift_swap_spot_token" -> ProxyUrl(agent, "drift", "drift-swap-spot-token")
      [] o = "resolve_all_domains" -> ProxyUrl(agent, "domains", "resolve-all-domains")
      [] o = "get_owned_domains_for_tld" -> ProxyUrl(agent, "domains", "get-owned-domains-for-tld")
      [] o = "get_all_domains_tlds" -> ProxyUrl(agent, "domains", "get-all-domains-tlds")
      [] OTHER -> ProxyUrl(agent, "domains", "get-owned-all-domains")

\* ------------------------------------------------------ response normaliser
\* the two envelopes
Success(key, value, message) ==
    PyDict(DictMerge([success |-> PyTrue, message |-> message], [x \in {key} |-> value]))
Failure(error) == PyDict([success |-> PyFalse, error |-> error])

\* the key under which an envelope method hands back the remote value
ValueKey(o) == IF o = "check_if_drift_account_exists" THEN "value" ELSE "transaction"
\* faulty variant of Normalize: the success envelope takes the value from the remote
\* "transaction" field and the message from the remote "value" field
Normalize_wrongFields(o, data) ==
    IF data.t # "dict"
    THEN Raise("AttributeError", "object has no attribute 'get'")
    ELSE CASE o \in EnvelopeOps ->
                IF Truthy(DictGet(data.d, "success"))
                THEN Ret(Success(ValueKey(o), DictGet(data.d, "transaction"), DictGet(data.d, "value")))
                ELSE Ret(Failure(DictGetDefault(data.d, "error", PyStr("Unknown error"))))
           [] o = "resolve_all_domains" ->
                IF Truthy(DictGet(data.d, "success"))
                THEN Ret(DictGet(data.d, "value"))
                ELSE Ret(None)
           [] OTHER -> Ret(DictGetDefault(data.d, "value", PyList(<<>>)))

\* the code of a method after `data = response.json()`
Normalize(o, data) ==
    IF data.t # "dict"
    THEN Raise("AttributeError", "object has no attribute 'get'")
    ELSE CASE o \in EnvelopeOps ->
                IF Truthy(DictGet(data.d, "success"))
                THEN Ret(Success(ValueKey(o), DictGet(data.d, "value"), DictGet(data.d, "message")))
                ELSE Ret(Failure(DictGetDefault(data.d, "error", PyStr("Unknown error"))))
           [] o = "resolve_all_domains" ->
                IF Truthy(DictGet(data.d, "success"))
                THEN Ret(DictGet(data.d, "value"))
                ELSE Ret(None)
           [] OTHER -> Ret(DictGetDefault(data.d, "value", PyList(<<>>)))
\* faulty variant of Handlers: the envelope methods lack the final `except Exception`
Handlers_noCatchAll(o) ==
    CASE o \in EnvelopeOps ->
            <<[catch |-> "RequestException", do |-> "failure"],
              [catch |-> "ValueError", do |-> "failure"]>>
      [] o \in AllDomainsOps ->
            <<[catch |-> "RequestException", do |-> "none"],
              [catch |-> "Exception", do |-> "none"]>>
      [] OTHER ->
            <<[catch |-> "Exception", do |-> "reraise"]>>

\* the except clauses of a method, in order: the class caught and what the
\* clause does with the exception
Handlers(o) ==
    CASE o = "check_if_drift_account_exists" ->
            <<[catch |-> "RequestException", do |-> "failure"],
              [catch |-> "Exception", do |-> "failure"]>>
      [] o \in EnvelopeOps ->
            <<[catch |-> "RequestException", do |-> "failure"],
              [catch |-> "ValueError", do |-> "failure"],
              [catch |-> "Exception", do |-> "failure"]>>
      [] o \in AllDomainsOps ->
            <<[catch |-> "RequestException", do |-> "none"],
              [catch |-> "Exception", do |-> "none"]>>
      [] OTHER ->
            <<[catch |-> "Exception", do |-> "reraise"]>>

\* the prefix a direct-SDK method puts before the original message
ErrorPrefix(o) ==
    CASE o = "get_account_balances" -> "Error fetching account balances: "
      [] o = "get_collateral_info" -> "Error fetching collateral information: "
      [] o = "get_account_deposits" -> "Error fetching collateral information: "
      [] o = "get_users_open_orders" -> "Error fetching user's open orders: "
      [] o = "execute_order" -> "Error executing order: "
      [] OTHER -> "Error creating deBridge transaction: "

\* what one except clause produces
HandlerResult(o, do, exc) ==
    CASE do = "failure" -> Ret(Failure(PyStr(StrOfExc(exc))))
      [] do = "none" -> Ret(None)
      [] OTHER -> Raise("Exception", ErrorPrefix(o) \o StrOfExc(exc))

\* try/except: the first clause whose class matches handles the exception;
\* an outcome that is not a raise passes through
Try(o, outcome) ==
    IF outcome.k # "raise" THEN outcome
    ELSE LET hs == Handlers(o)
             matching == {i \in 1..Len(hs) : IsInstance(outcome, hs[i].catch)}
         IN IF matching = {} THEN outcome
            ELSE LET first == CHOOSE i \in matching : \A j \in matching : i <= j
                 IN HandlerResult(o, hs[first].do, outcome)
\* the text an except clause of a proxy-backed method logs before the
\* exception
HandlerText(catch) ==
    CASE catch = "RequestException" -> "HTTP error: "
      [] catch = "ValueError" -> "Validation error: "
      [] OTHER -> "Unexpected error: "

\* what the try/except of a method writes to the logger for an outcome: the
\* clause that returns a failure envelope or None logs the exception, the
\* clause that raises again logs nothing
HandlerLog(o, outcome) ==
    IF outcome.k # "raise" THEN <<>>
    ELSE LET hs == Handlers(o)
             matching == {i \in 1..Len(hs) : IsInstance(outcome, hs[i].catch)}
         IN IF matching = {} THEN <<>>
            ELSE LET first == CHOOSE i \in matching : \A j \in matching : i <= j
                 IN IF hs[first].do = "reraise" THEN <<>>
                    ELSE <<LogRecord("error", HandlerText(hs[first].catch),
                                     PyStr(StrOfExc(outcome)))>>

\* faulty variant of AfterPost: the body is parsed without raise_for_status
AfterPost_noStatusCheck(o, http) ==
    IF http.k = "raise" THEN http
    ELSE IF json(http).k = "raise" THEN json(http)
    ELSE Normalize(o, json(http).v)

\* the part of a method from the POST's outcome to its return value
AfterPost(o, http) ==
    IF http.k = "raise" THEN http
    ELSE IF raise_for_status(http).k = "raise" THEN raise_for_status(http)
    ELSE IF json(http).k = "raise" THEN json(http)
    ELSE Normalize(o, json(http).v)

\* ------------------------------------------------------- what the remote says
\* a requestId issued by the key-issuance endpoint
RequestId(n) == [t |-> "rid", n |-> n]

\* bodies of the key-issuance endpoint when it has issued request id n: the
\* complete body, bodies with a field missing, a key that is not base64, a
\* key of the wrong length, JSON null, and text that is not JSON
FullKeyBody(n) ==
    [requestId |-> RequestId(n), encryptionKey |-> B64("key", n, 32), iv |-> B64("iv", n, 16)]
KeyBodies(n) ==
    {PyDict([k \in K |-> FullKeyBody(n)[k]]) : K \in SUBSET {"requestId", "encryptionKey", "iv"}}
    \cup {PyDict([FullKeyBody(n) EXCEPT !.encryptionKey = PyStr("%%%")]),
          PyDict([FullKeyBody(n) EXCEPT !.encryptionKey = B64("key", n, 5)]),
          None, NotJson}
KeyReplies(n) ==
    {TransportFailure}
    \cup {Response(200, b) : b \in KeyBodies(n)}
    \cup {Response(500, b) : b \in {NotJson, PyDict(EmptyMap), PyDict(FullKeyBody(n))}}

\* bodies of a proxy operation endpoint: every combination of the four fields
\* the methods read, each present with one of its values or absent
BodyFields ==
    [success : {PyTrue, PyFalse, None},
     value : {PyStr("5hGx"), None},
     message : {PyStr("done")},
     error : {PyStr("Insufficient balance"), None}]
OpBodies ==
    {PyDict([k \in K |-> f[k]]) : K \in SUBSET {"success", "value", "message", "error"}, f \in BodyFields}
    \cup {None, PyList(<<>>), NotJson}
PostReplies ==
    {TransportFailure}
    \cup {Response(200, b) : b \in OpBodies}
    \cup {Response(500, b) : b \in {NotJson,
                                    PyDict([success |-> PyTrue, value |-> PyStr("5hGx"),
                                            message |-> PyStr("done")])}}

\* what a method of the exchange client produces
SdkOutcomes ==
    {Ret(PyDict([SOL |-> PyNum(1)])), Ret(PyDict(EmptyMap)),
     Raise("Exception", "401 Unauthorized"), Raise("ConnectionError", "connection refused")}

\* what requests.get on the deBridge API produces
DeBridgeReplies ==
    {TransportFailure,
     Response(200, PyDict([tx |-> PyStr("0xdata")])),
     Response(200, NotJson),
     Response(500, NotJson),
     Response(400, PyDict(EmptyMap))}

\* the outcomes of the third-party call of a direct-SDK operation
ClientOutcomes(o) == IF o \in DeBridgeOps THEN DeBridgeReplies ELSE SdkOutcomes

\* the client method (or HTTP call) each direct-SDK operation wraps
ClientMethod(o) ==
    CASE o = "get_account_balances" -> <<"auth_client", "get_balances">>
      [] o = "get_collateral_info" -> <<"auth_client", "get_collateral">>
      [] o = "get_account_deposits" -> <<"auth_client", "get_deposits">>
      [] o = "get_users_open_orders" -> <<"auth_client", "get_users_open_orders">>
      [] o = "execute_order" -> <<"auth_client", "execute_order">>
      [] OTHER -> <<"requests", "get">>

\* response.text
ResponseText(resp) == IF resp.body = NotJson THEN "<html>" ELSE "{}"

\* the part of a direct-SDK method's try block after the third-party call:
\* a Backpack method returns what the client returned; the deBridge method
\* raises on a status that is not ok and parses the body otherwise
AfterClient(o, outcome) ==
    IF o \notin DeBridgeOps \/ outcome.k = "raise" THEN outcome
    ELSE IF outcome.status >= 400
    THEN Raise("Exception", "HTTP error! status: " \o ToString(outcome.status)
                            \o ", body: " \o ResponseText(outcome))
    ELSE json(outcome)

\* ---------------------------------------------------------- Jito block engine
\* obj.attr on the agent
GetAttr(obj, attr) ==
    IF attr \in DOMAIN obj THEN Ret(obj[attr])
    ELSE Raise("AttributeError", "'SolanaAgentKit' object has no attribute '" \o attr \o "'")

\* the names bound at module level in use_jito.py
JitoGlobals == {"SolanaAgentKit", "__send_request", "random", "JitoManager"}

\* a name with two leading underscores written inside a class body is
\* compiled with the class name in front of it
PrivateNames == {"__send_request"}
Mangle(cls, name) == IF name \in PrivateNames THEN "_" \o cls \o name ELSE name

\* the lookup of a global name when the code runs
LookupGlobal(name) ==
    IF name \in JitoGlobals THEN Ret(name)
    ELSE Raise("NameError", "name '" \o name \o "' is not defined")

\* __send_request(agent, endpoint, method, params), given what requests.post
\* produces: agent.url is read inside the try, whose except clauses catch
\* the exceptions of requests only
send_request(kit, endpoint, http) ==
    IF endpoint = None THEN Ret(PyStr("Error: Please enter a valid endpoint."))
    ELSE IF GetAttr(kit, "url").k = "raise" THEN GetAttr(kit, "url")
    ELSE IF http.k = "raise"
    THEN Ret(PyDict([success |-> PyFalse,
                     error |-> PyStr((IF IsInstance(http, "ConnectionError")
                                      THEN "Error Connecting: " ELSE "An error occurred: ")
                                     \o StrOfExc(http))]))
    ELSE IF raise_for_status(http).k = "raise"
    THEN Ret(PyDict([success |-> PyFalse,
                     error |-> PyStr("HTTP Error: " \o StrOfExc(raise_for_status(http)))]))
    ELSE IF json(http).k = "raise"
    THEN Ret(PyDict([success |-> PyFalse,
                     error |-> PyStr("An error occurred: " \o StrOfExc(json(http)))]))
    ELSE Ret(PyDict([success |-> PyTrue, data |-> json(http).v]))

\* JitoManager.get_tip_accounts, called with the positional arguments a
get_tip_accounts(a, http) ==
    IF Len(a) < 1
    THEN Raise("TypeError",
               "JitoManager.get_tip_accounts() missing 1 required positional argument: 'agent'")
    ELSE IF GetAttr(a[1], "jito_uuid").k = "raise" THEN GetAttr(a[1], "jito_uuid")
    ELSE IF LookupGlobal(Mangle("JitoManager", "__send_request")).k = "raise"
    THEN LookupGlobal(Mangle("JitoManager", "__send_request"))
    ELSE send_request(a[1],
                      IF a[1].jito_uuid = None THEN PyStr("/bundles")
                      ELSE PyStr("/bundles?uuid=" \o a[1].jito_uuid.s),
                      http)

\* JitoManager.get_random_tip_account(): it calls get_tip_accounts() with no
\* argument; pick is the index random.choice takes
get_random_tip_account(http, pick) ==
    LET response == get_tip_accounts(<<>>, http)
    IN IF response.k = "raise" THEN response
       ELSE LET ok == Subscript(response.v, "success")
            IN IF ok.k = "raise" THEN ok
               ELSE IF ~Truthy(ok.v) THEN Ret(None)
               ELSE LET data == Subscript(response.v, "data")
                    IN IF data.k = "raise" THEN data
                       ELSE LET tips == Subscript(data.v, "result")
                            IN IF tips.k = "raise" THEN tips
                               ELSE IF ~Truthy(tips.v) THEN Ret(None)
                               ELSE Ret(tips.v.l[((pick - 1) % Len(tips.v.l)) + 1])

\* what the block engine answers to getTipAccounts
TipAccounts == <<PyStr("tipA"), PyStr("tipB")>>
JitoReplies ==
    {TransportFailure, Response(500, NotJson),
     Response(200, PyDict([result |-> PyList(<<>>)])),
     Response(200, PyDict([result |-> PyList(TipAccounts)]))}
JitoOps == {"get_tip_accounts", "get_random_tip_account"}

\* ------------------------------------------------------------------ facade
\* the facade methods modelled and the positional parameters each declares
\* the facade methods of the proxy-backed managers modelled
ProxyFacadeMethods == {"create_drift_user_account", "create_3land_collection"}
\* the facade methods of DeBridgeManager and of PumpfunManager modelled, with
\* the arguments they pass on
DeBridgeFacadeMethods == {"create_debridge_transaction", "check_transaction_status"}
ForwardingMethods == DeBridgeFacadeMethods \cup {"sell_token"}
FacadeMethods ==
    {"get_balance", "get_tip_accounts", "get_random_tip_account",
     "fetch_token_report_summary", "get_account_balances"}
    \cup ProxyFacadeMethods \cup ForwardingMethods
\* the parameters of DeBridgeManager.create_debridge_transaction
DeBridgeParams ==
    <<"src_chain_id", "src_chain_token_in", "src_chain_token_in_amount", "dst_chain_id",
      "dst_chain_token_out", "dst_chain_token_out_recipient",
      "src_chain_order_authority_address", "dst_chain_order_authority_address",
      "affiliate_fee_percent", "affiliate_fee_recipient", "prepend_operating_expenses",
      "dst_chain_token_out_amount">>
FacadeParams(m) ==
    CASE m = "get_balance" -> <<"self", "token_address">>
      [] m = "get_random_tip_account" -> <<>>
      [] m = "fetch_token_report_summary" -> <<"mint">>
      [] m = "create_drift_user_account" -> <<"self", "deposit_amount", "deposit_symbol">>
      [] m = "sell_token" ->
            <<"self", "mint", "bonding_curve", "associated_bonding_curve", "amount",
              "slippage", "max_retries">>
      [] m = "create_debridge_transaction" -> <<"self">> \o DeBridgeParams
      [] m = "check_transaction_status" -> <<"self", "tx_hash">>
      [] m = "create_3land_collection" ->
            <<"self", "collection_symbol", "collection_name", "collection_description",
              "main_image_url", "cover_image_url", "is_devnet">>
      [] OTHER -> <<"self">>
\* how many of them have no default value
FacadeRequired(m) ==
    CASE m = "get_balance" -> 1
      [] m = "create_3land_collection" -> 4
      [] m = "create_debridge_transaction" -> 9
      [] OTHER -> Len(FacadeParams(m))
\* the numbers of arguments a caller passes
FacadeArgCounts(m) == IF m \in ForwardingMethods THEN {0, Len(FacadeParams(m)) - 1} ELSE 0..3

\* the names in the argument list of the manager call a facade method makes
Forwarded(m) ==
    CASE m = "sell_token" ->
            <<"self", "mint", "bonding_curve", "associated_bonding_curve", "slippage",
              "max_retries">>
      [] m = "create_debridge_transaction" -> <<"self">> \o DeBridgeParams
      [] m = "check_transaction_status" -> <<"self", "tx_hash">>
      [] OTHER -> <<>>
\* the parameters of the manager method called, and how many of them have no
\* default value
ManagerParams(m) ==
    CASE m = "create_debridge_transaction" -> DeBridgeParams
      [] m = "check_transaction_status" -> <<"tx_hash">>
      [] OTHER -> <<>>
ManagerRequired(m) == IF m = "create_debridge_transaction" THEN 8 ELSE Len(ManagerParams(m))

\* the value a caller supplies for a parameter; for self, the agent
ArgValue(param) == IF param = "self" THEN [t |-> "agent"] ELSE PyStr("<" \o param \o ">")
\* the values a facade method passes to its manager method
Passed(m) == [i \in DOMAIN Forwarded(m) |-> ArgValue(Forwarded(m)[i])]

\* Python's binding of n positional arguments to the parameters of a function
Bind(name, params, required, n) ==
    IF n > Len(params)
    THEN Raise("TypeError", name \o "() takes " \o ToString(Len(params))
                            \o " positional arguments but " \o ToString(n) \o " were given")
    ELSE IF n < required
    THEN Raise("TypeError", name \o "() missing " \o ToString(required - n)
                            \o " required positional arguments")
    ELSE Ret(n)

\* Python's binding of positional values to the parameters of a function:
\* the values by parameter name, or the TypeError
Plural(n) == IF n = 1 THEN "" ELSE "s"
BindValues(name, params, required, values) ==
    IF Len(values) > Len(params)
    THEN Raise("TypeError",
               name \o "() takes "
               \o (IF required = Len(params) THEN ToString(required)
                   ELSE "from " \o ToString(required) \o " to " \o ToString(Len(params)))
               \o " positional argument" \o Plural(Len(params)) \o " but "
               \o ToString(Len(values)) \o " were given")
    ELSE IF Len(values) < required
    THEN Raise("TypeError", name \o "() missing " \o ToString(required - Len(values))
                            \o " required positional argument" \o Plural(required - Len(values)))
    ELSE Ret([q \in {params[i] : i \in DOMAIN values} |->
                 values[CHOOSE i \in DOMAIN values : params[i] = q]])

\* the binding the manager call of a facade method makes
ManagerBinding(m, values) ==
    BindValues("DeBridgeManager." \o m, ManagerParams(m), ManagerRequired(m), values)

\* what the managers outside this source tree (BalanceFetcher,
\* RugCheckManager) produce
ManagerOutcomes ==
    {Ret(PyNum(7)), Ret(None), Raise("Exception", "timeout"),
     [k |-> "raise", cls |-> "RPCException", msg |-> "Too many requests", code |-> PyNum(429)]}

\* what the manager method behind a facade method produces when it has run
\* to its end: for a proxy-backed method, what its try block makes of the
\* operation POST
InnerOutcomes(m) ==
    CASE m \in ProxyFacadeMethods -> {Try(m, AfterPost(m, http)) : http \in PostReplies}
      [] m \in JitoOps \cup {"get_account_balances"} -> {Ret(None)}
      [] OTHER -> ManagerOutcomes
\* what the Jito endpoint answers and which tip account is drawn, for the
\* facade methods that reach them
FacadeReplies(m) == IF m \in JitoOps THEN JitoReplies ELSE {TransportFailure}
FacadePicks(m) == IF m = "get_random_tip_account" THEN DOMAIN TipAccounts ELSE {1}

\* the manager call inside the try block of a facade method
FacadeManagerCall(m, kit, inner, http, pick) ==
    CASE m = "get_tip_accounts" -> get_tip_accounts(<<kit>>, http)
      [] m = "get_random_tip_account" -> get_random_tip_account(http, pick)
      [] m = "get_account_balances" -> Try("get_account_balances", GetAttr(kit, "auth_client"))
      [] m \in DeBridgeFacadeMethods ->
            IF ManagerBinding(m, Passed(m)).k = "raise" THEN ManagerBinding(m, Passed(m))
            ELSE inner
      [] OTHER -> inner

\* type(value).__name__
TypeName(v) ==
    CASE v.t = "None" -> "NoneType"
      [] v.t = "num" -> "int"
      [] OTHER -> v.t

\* the facade methods that write `await` before the call of a manager method
\* defined with a plain `def`
AwaitsPlainCall(m) == m \in ProxyFacadeMethods \cup {"get_account_balances"}

\* `await value` where the value is what a plain function returned
Await(outcome) ==
    IF outcome.k = "raise" THEN outcome
    ELSE Raise("TypeError", "object " \o TypeName(outcome.v)
                            \o " can't be used in 'await' expression")

\* the text a facade method puts before the message of the exception
FacadePrefix(m) ==
    CASE m = "get_balance" -> "Failed to fetch balance: "
      [] m = "get_account_balances" -> "Failed to fetch account balances: "
      [] m = "create_drift_user_account" -> "Failed to create Drift user account: "
      [] m = "create_3land_collection" -> "Failed to create 3land collection: "
      [] OTHER -> "Failed to "

\* a facade method called with n positional arguments (the instance counts
\* as one when the call is made on an instance)
FacadeMethod(m, n, kit, inner, http, pick) ==
    LET bound == Bind("SolanaAgentKit." \o m, FacadeParams(m), FacadeRequired(m), n)
    IN IF bound.k = "raise" THEN bound
       ELSE LET call == FacadeManagerCall(m, kit, inner, http, pick)
                out == IF AwaitsPlainCall(m) THEN Await(call) ELSE call
            IN IF out.k = "raise" /\ IsInstance(out, "Exception")
               THEN Raise("SolanaAgentKitError", FacadePrefix(m) \o StrOfExc(out))
               ELSE out

\* ------------------------------------------------------------ tool wrappers
\* the tools modelled, one or more for each shape of except clause
CodeTools == {"SolanaBalanceTool", "SolanaTransferTool"}
CallTools == {"SolanaFetchPriceTool"}
PrefixCodeTools == {"SolanaTPSCalculatorTool"}
NoCodeTools == {"SolanaPythGetPriceTool"}
KeyMessageTools == {"BackpackGetAccountBalancesTool"}
KeyOnlyTools == {"SolanaGetTipAccounts"}
InputMessageTools == {"SolanaMeteoraDLMMTool"}
Tools == CodeTools \cup CallTools \cup PrefixCodeTools \cup NoCodeTools
         \cup KeyMessageTools \cup KeyOnlyTools \cup InputMessageTools

\* the methods through which a tool is run; `call` exists on CallTools only,
\* which define no _arun of their own
EntryPoints(tool) == IF tool \in CallTools THEN {"_run", "_arun", "call"} ELSE {"_run", "_arun"}

\* SolanaMeteoraDLMMTool: the activation_type values its description
\* documents, and the keys of its activation_type_mapping
DocumentedActivationTypes == {"Instant", "Delayed", "Manual"}
MappedActivationTypes == {"Slot", "Timestamp"}
ActivationNames == DocumentedActivationTypes \cup MappedActivationTypes
\* ActivationType.Slot, ActivationType.Timestamp
ActivationType(name) == [t |-> "enum", name |-> name]

\* an input of SolanaMeteoraDLMMTool with all required keys, and one without
\* fee_bps
MeteoraInput(activation) ==
    "{\"bin_step\": 5, \"token_a_mint\": \"MintA\", \"token_b_mint\": \"MintB\", "
    \o "\"initial_price\": 1, \"price_rounding_up\": true, \"fee_bps\": 300, "
    \o "\"activation_type\": \"" \o activation \o "\", \"has_alpha_vault\": false}"
MeteoraInputNoFee ==
    "{\"bin_step\": 5, \"token_a_mint\": \"MintA\", \"token_b_mint\": \"MintB\", "
    \o "\"initial_price\": 1, \"price_rounding_up\": true, "
    \o "\"activation_type\": \"Slot\", \"has_alpha_vault\": false}"
MeteoraInputs == {MeteoraInput(a) : a \in ActivationNames} \cup {MeteoraInputNoFee}
MeteoraData(activation) ==
    PyDict([bin_step |-> PyNum(5), token_a_mint |-> PyStr("MintA"),
            token_b_mint |-> PyStr("MintB"), initial_price |-> PyNum(1),
            price_rounding_up |-> PyTrue, fee_bps |-> PyNum(300),
            activation_type |-> PyStr(activation), has_alpha_vault |-> PyFalse])
MeteoraDataNoFee ==
    PyDict([bin_step |-> PyNum(5), token_a_mint |-> PyStr("MintA"),
            token_b_mint |-> PyStr("MintB"), initial_price |-> PyNum(1),
            price_rounding_up |-> PyTrue,
            activation_type |-> PyStr("Slot"), has_alpha_vault |-> PyFalse])

\* the input strings a caller passes
ToolInputs ==
    {"", "not json", "Owner58", " Owner58 ", "[]", "{}",
     "{\"to\": \"Owner58\", \"amount\": 1}",
     "{\"to\": \"not-base58\", \"amount\": 1}",
     "{\"to\": \"Owner58\"}",
     "{\"mint_address\": \"Owner58\"}"} \cup MeteoraInputs

\* input.strip(): of the inputs above one has blanks around it
strip(input) == IF input = " Owner58 " THEN "Owner58" ELSE input

\* json.loads(input) / toJSON(input)
toJSON(input) ==
    CASE input = "[]" -> Ret(PyList(<<>>))
      [] input = "{}" -> Ret(PyDict(EmptyMap))
      [] input = "{\"to\": \"Owner58\", \"amount\": 1}" ->
            Ret(PyDict([to |-> PyStr("Owner58"), amount |-> PyNum(1)]))
      [] input = "{\"to\": \"not-base58\", \"amount\": 1}" ->
            Ret(PyDict([to |-> PyStr("not-base58"), amount |-> PyNum(1)]))
      [] input = "{\"to\": \"Owner58\"}" -> Ret(PyDict([to |-> PyStr("Owner58")]))
      [] input = "{\"mint_address\": \"Owner58\"}" -> Ret(PyDict([mint_address |-> PyStr("Owner58")]))
      [] input = MeteoraInputNoFee -> Ret(MeteoraDataNoFee)
      [] \E a \in ActivationNames : input = MeteoraInput(a) ->
            Ret(MeteoraData(CHOOSE a \in ActivationNames : input = MeteoraInput(a)))
      [] OTHER -> Raise("JSONDecodeError", "Expecting value: line 1 column 1 (char 0)")

\* json.dumps(value): the JSON text of a value
json_dumps(v) == [t |-> "jsontext", of |-> v]

\* an exception that carries a `code` attribute
RaiseCoded(cls, msg, code) == [k |-> "raise", cls |-> cls, msg |-> msg, code |-> code]
\* faulty variant of CodeOf: the code attribute of the exception is ignored
CodeOf_alwaysUnknown(exc) == PyStr("UNKNOWN_ERROR")

\* getattr(e, "code", "UNKNOWN_ERROR")
CodeOf(exc) == IF "code" \in DOMAIN exc THEN exc.code ELSE PyStr("UNKNOWN_ERROR")

\* f"{value}"
Format(v) ==
    CASE v.t = "str" -> v.s
      [] v.t = "num" -> ToString(v.n)
      [] OTHER -> "None"

\* `key in data` for a parsed JSON value
Contains(data, key) ==
    CASE data.t = "dict" -> key \in DOMAIN data.d
      [] data.t = "list" -> \E i \in DOMAIN data.l : data.l[i] = PyStr(key)
      [] OTHER -> FALSE

\* SolanaMeteoraDLMMTool._arun: the keys it requires, in the order it looks
\* for them
MeteoraRequiredKeys ==
    <<"bin_step", "token_a_mint", "token_b_mint", "initial_price",
      "price_rounding_up", "fee_bps", "activation_type", "has_alpha_vault">>

\* activation_type_mapping.get(name)
activation_type_mapping_get(name) ==
    IF name.t = "str" /\ name.s \in MappedActivationTypes THEN ActivationType(name.s) ELSE None

\* the try block of SolanaMeteoraDLMMTool._arun from the parsed input up to
\* the facade call
MeteoraPrepare(data) ==
    LET missing == {i \in DOMAIN MeteoraRequiredKeys : ~Contains(data, MeteoraRequiredKeys[i])}
    IN IF missing # {}
       THEN Raise("ValueError", "Missing required key: "
                  \o MeteoraRequiredKeys[CHOOSE i \in missing : \A j \in missing : i <= j])
       ELSE LET activation_type == activation_type_mapping_get(data.d["activation_type"])
            IN IF activation_type = None
               THEN Raise("ValueError", "Invalid activation_type. Valid options are: Slot, Timestamp.")
               ELSE Ret(<<data.d["bin_step"], data.d["token_a_mint"], data.d["token_b_mint"],
                          data.d["initial_price"], data.d["price_rounding_up"],
                          data.d["fee_bps"], activation_type, data.d["has_alpha_vault"],
                          DictGet(data.d, "activation_point")>>)

\* the part of a tool's try block before the facade call: Ret(the facade
\* call's arguments) or the raise
ToolPrepare(tool, input) ==
    CASE tool = "SolanaBalanceTool" ->
            IF input = "" THEN Ret(<<None>>)
            ELSE IF PublicKey(PyStr(input)).k = "raise" THEN PublicKey(PyStr(input))
            ELSE Ret(<<PublicKey(PyStr(input)).v>>)
      [] tool = "SolanaTransferTool" ->
            LET data == toJSON(input)
            IN IF data.k = "raise" THEN data
               ELSE IF Subscript(data.v, "to").k = "raise" THEN Subscript(data.v, "to")
               ELSE IF PublicKey(Subscript(data.v, "to").v).k = "raise"
                    THEN PublicKey(Subscript(data.v, "to").v)
               ELSE IF "mint" \in DOMAIN data.v.d /\ PublicKey(data.v.d["mint"]).k = "raise"
                    THEN PublicKey(data.v.d["mint"])
               ELSE IF Subscript(data.v, "amount").k = "raise" THEN Subscript(data.v, "amount")
               ELSE Ret(<<data.v.d["to"], data.v.d["amount"], DictGet(data.v.d, "mint")>>)
      [] tool = "SolanaFetchPriceTool" -> Ret(<<PyStr(strip(input))>>)
      [] tool = "SolanaPythGetPriceTool" ->
            LET data == toJSON(input)
            IN IF data.k = "raise" THEN data
               ELSE IF Subscript(data.v, "mint_address").k = "raise"
                    THEN Subscript(data.v, "mint_address")
               ELSE Ret(<<data.v.d["mint_address"]>>)
      [] tool = "SolanaMeteoraDLMMTool" ->
            LET data == toJSON(input)
            IN IF data.k = "raise" THEN data ELSE MeteoraPrepare(data.v)
      [] OTHER -> Ret(<<>>)

\* the return statement of the try block, given the facade's return value
ToolSuccess(tool, input, value) ==
    CASE tool = "SolanaBalanceTool" ->
            PyDict([status |-> PyStr("success"), balance |-> value,
                    token |-> IF input = "" THEN PyStr("SOL") ELSE PyStr(input)])
      [] tool = "SolanaTransferTool" ->
            PyDict([status |-> PyStr("success"),
                    message |-> PyStr("Transfer completed successfully"),
                    amount |-> toJSON(input).v.d["amount"],
                    recipient |-> toJSON(input).v.d["to"],
                    token |-> DictGetDefault(toJSON(input).v.d, "mint", PyStr("SOL")),
                    transaction |-> value])
      [] tool = "SolanaFetchPriceTool" ->
            json_dumps(PyDict([status |-> PyStr("success"), tokenId |-> PyStr(strip(input)),
                               priceInUSDC |-> value]))
      [] tool = "SolanaTPSCalculatorTool" ->
            PyDict([status |-> PyStr("success"),
                    message |-> PyStr("Solana (mainnet-beta) current transactions per second: "
                                      \o Format(value))])
      [] tool = "SolanaPythGetPriceTool" ->
            PyDict([status |-> PyStr("success"), data |-> value])
      [] tool = "BackpackGetAccountBalancesTool" ->
            PyDict([balances |-> value, message |-> PyStr("Success")])
      [] tool = "SolanaMeteoraDLMMTool" ->
            PyDict([status |-> PyStr("success"),
                    message |-> PyStr("Meteora DLMM pool created successfully"),
                    result |-> value])
      [] OTHER -> PyDict([accounts |-> value])

\* the except clause of the tool: what it returns for the exception caught
ToolExcept(tool, exc) ==
    CASE tool \in CodeTools ->
            PyDict([status |-> PyStr("error"), message |-> PyStr(StrOfExc(exc)),
                    code |-> CodeOf(exc)])
      [] tool \in CallTools ->
            json_dumps(PyDict([status |-> PyStr("error"), message |-> PyStr(StrOfExc(exc)),
                               code |-> CodeOf(exc)]))
      [] tool \in PrefixCodeTools ->
            PyDict([status |-> PyStr("error"),
                    message |-> PyStr("Error fetching TPS: " \o StrOfExc(exc)),
                    code |-> CodeOf(exc)])
      [] tool \in NoCodeTools ->
            PyDict([status |-> PyStr("error"), message |-> PyStr(StrOfExc(exc))])
      [] tool \in KeyMessageTools ->
            PyDict([balances |-> None,
                    message |-> PyStr("Error fetching account balances: " \o StrOfExc(exc))])
      [] OTHER -> PyDict([accounts |-> None])

\* try/except Exception of a tool: every raise inside the try is caught
ToolTry(tool, outcome) ==
    IF outcome.k = "raise" /\ IsInstance(outcome, "Exception")
    THEN Ret(ToolExcept(tool, outcome))
    ELSE outcome

\* the except clause of a tool that puts its input into the message
InputMessageExcept(input, exc) ==
    PyDict([status |-> PyStr("error"),
            message |-> PyStr("Failed to process input: " \o input
                              \o ". Error: " \o StrOfExc(exc)),
            code |-> CodeOf(exc)])

\* the try/except of the tool run with this input
ToolTryInput(tool, input, outcome) ==
    IF tool \in InputMessageTools /\ outcome.k = "raise" /\ IsInstance(outcome, "Exception")
    THEN Ret(InputMessageExcept(input, outcome))
    ELSE ToolTry(tool, outcome)

\* _run of every tool, and the inherited _arun of a tool that defines none
NotImplemented ==
    Raise("NotImplementedError",
          "This tool only supports async execution via _arun. Please use the async interface.")

\* whether the method behind the entry point declares the input parameter:
\* SolanaTPSCalculatorTool._arun(self) declares none
DeclaresInput(tool, entry) == ~(tool = "SolanaTPSCalculatorTool" /\ entry = "_arun")

\* Python's binding of the call's arguments to the method's parameters
ArgumentMismatch ==
    Raise("TypeError", "_arun() takes 1 positional argument but 2 were given")

\* whether the entry point runs the tool's own try block
RunsTryBlock(tool, entry) ==
    \/ entry = "call" /\ tool \in CallTools
    \/ entry = "_arun" /\ tool \notin CallTools

\* what the facade method called by a tool produces
FacadeOutcomes ==
    {Ret(PyNum(7)), Ret(None),
     Raise("SolanaAgentKitError", "Failed to fetch balance: timeout"),
     RaiseCoded("RPCException", "Too many requests", PyNum(429))}

\* ----------------------------------------------------------------- state
VARIABLES
    agent,      \* the agent context (SolanaAgentKit instance)
    pc,         \* per slot: where the call is
    op,         \* per slot: the manager method called
    args,       \* per slot: its arguments
    keyReply,   \* per slot: what the key-issuance POST produced, once known
    postReply,  \* per slot: what the operation POST produced, once known
    sent,       \* per slot: the requests this call has sent, in order
    result,     \* per slot: the outcome handed to the caller
    nextId,     \* key-issuance endpoint: the next request id it will issue
    started,    \* number of manager calls started
    posted,     \* the request ids of all operation POSTs sent so far
    toolPc,     \* where the tool invocation is
    tool,       \* the tool invoked, its entry point and its input string
    facadeReply,\* what the facade method awaited by the tool produced, once known
    toolResult, \* the outcome handed to the tool's caller
    toolRuns,   \* number of tool invocations started
    facadePc,   \* where the direct facade call is
    facade,     \* the facade method called, how, and with how many arguments
    facadeResult, \* the outcome handed to the facade's caller
    plainKey,   \* the string encrypt_private_key is called with on its own
    envelope,   \* the outcome of that encrypt_private_key call
    encLocals,  \* the local variables of that call, as far as it got
    logged,     \* the records last written to the logger; cleared when a
                \* caller takes an outcome
    runPc,      \* where the call of a method that talks to the chain or to a
                \* service step by step is
    run,        \* that call: the method, its argument and its local variables
    trace,      \* the calls it has made to the outside, in order
    runResult   \* the outcome handed to its caller

callVars == <<pc, op, args, keyReply, postReply, sent, result>>
toolVars == <<toolPc, tool, facadeReply, toolResult, toolRuns>>
facadeVars == <<facadePc, facade, facadeResult>>
encVars == <<plainKey, envelope, encLocals>>
vars == <<agent, pc, op, args, keyReply, postReply, sent, result, nextId, started, posted,
          toolPc, tool, facadeReply, toolResult, toolRuns,
          facadePc, facade, facadeResult, plainKey, envelope, encLocals, logged,
          runPc, run, trace, runResult>>
runVars == <<runPc, run, trace, runResult>>
NoRun == [fn |-> "none"]

NoFacade == [method |-> "none", via |-> "none", nargs |-> 0, manager |-> [k |-> "pending"],
             passed |-> <<>>]
NoLocals == [http |-> [k |-> "pending"]]

NoTool == [name |-> "none", entry |-> "none", given |-> FALSE, input |-> ""]

NoOp == "none"
Pending == [k |-> "pending"]

\* the requests a call sends
KeyRequest == [kind |-> "key", url |-> KeyUrl, json |-> None]
OpRequest(url, payload) == [kind |-> "op", url |-> url, json |-> PyDict(payload)]
SdkRequest(o) == [kind |-> "sdk", url |-> ClientMethod(o), json |-> None]

Init ==
    /\ agent \in Agents
    /\ pc = [c \in Slots |-> "idle"]
    /\ op = [c \in Slots |-> NoOp]
    /\ args = [c \in Slots |-> EmptyMap]
    /\ keyReply = [c \in Slots |-> Pending]
    /\ postReply = [c \in Slots |-> Pending]
    /\ sent = [c \in Slots |-> <<>>]
    /\ result = [c \in Slots |-> Pending]
    /\ nextId = 1
    /\ started = 0
    /\ posted = <<>>
    /\ toolPc = "idle"
    /\ tool = NoTool
    /\ facadeReply = Pending
    /\ toolResult = Pending
    /\ toolRuns = 0
    /\ facadePc = "idle"
    /\ facade = NoFacade
    /\ facadeResult = Pending
    /\ plainKey = <<>>
    /\ envelope = Pending
    /\ encLocals = NoLocals
    /\ logged \in {ConstructorLog(agent, generate_wallet) : generate_wallet \in BOOLEAN}
    /\ runPc = "idle"
    /\ run = NoRun
    /\ trace = <<>>
    /\ runResult = Pending

\* faulty variant of PostReply: the response is kept in one place shared by
\* all calls, so every call waiting for its POST takes this one's outcome
PostReply_shared(c, http) ==
    /\ pc[c] = "post"
    /\ postReply' = [postReply EXCEPT ![c] = http]
    /\ result' = [d \in Slots |-> IF pc[d] = "post"
                                   THEN Try(op[d], AfterPost(op[d], http))
                                   ELSE result[d]]
    /\ pc' = [pc EXCEPT ![c] = "done"]
    /\ logged' = HandlerLog(op[c], AfterPost(op[c], http))
    /\ UNCHANGED <<agent, runVars, facadeVars, encVars, op, args, keyReply, sent, nextId, started, posted, toolVars>>

\* the part of a proxied method from its entry to its first request: the
\* validation, and when it passes the key-issuance POST
ManagerCall(c, o, a) ==
    /\ \A d \in Slots : pc[d] = "idle"
    /\ toolPc = "idle"
    /\ facadePc = "idle"
    /\ started < MaxCalls
    /\ started' = started + 1
    /\ op' = [op EXCEPT ![c] = o]
    /\ args' = [args EXCEPT ![c] = a]
    /\ IF ValidationCheck(o, a).k = "raise"
       THEN /\ result' = [result EXCEPT ![c] = IF ValidatesInTry(o)
                                                THEN Try(o, ValidationCheck(o, a))
                                                ELSE ValidationCheck(o, a)]
            /\ pc' = [pc EXCEPT ![c] = "done"]
            /\ sent' = sent
       ELSE /\ result' = result
            /\ pc' = [pc EXCEPT ![c] = IF o \in SdkOps THEN "sdk" ELSE "key"]
            /\ sent' = [sent EXCEPT ![c] = <<IF o \in SdkOps THEN SdkRequest(o) ELSE KeyRequest>>]
    /\ logged' = IF ValidatesInTry(o) THEN HandlerLog(o, ValidationCheck(o, a)) ELSE <<>>
    /\ UNCHANGED <<agent, runVars, facadeVars, encVars, keyReply, postReply, nextId, posted, toolVars>>

\* the key-issuance POST completes: encrypt_private_key finishes, the payload
\* is built and the operation POST is sent, or the failure is handled
KeyReply(c, http) ==
    /\ pc[c] = "key"
    /\ keyReply' = [keyReply EXCEPT ![c] = http]
    /\ nextId' = IF http.k = "response" /\ http.body.t = "dict" /\ "requestId" \in DOMAIN http.body.d
                 THEN nextId + 1 ELSE nextId
    /\ LET epk == encrypt_private_key(agent.private_key, http)
           fields == OperationFields(op[c], args[c])
       IN IF epk.k = "raise" \/ fields.k = "raise"
          THEN /\ result' = [result EXCEPT ![c] = Try(op[c], IF epk.k = "raise" THEN epk ELSE fields)]
               /\ logged' = HandlerLog(op[c], IF epk.k = "raise" THEN epk ELSE fields)
               /\ pc' = [pc EXCEPT ![c] = "done"]
               /\ UNCHANGED <<sent, posted>>
          ELSE LET payload == DictMerge(HandshakeFields(agent, epk.v), fields.v)
               IN /\ sent' = [sent EXCEPT ![c] = Append(@, OpRequest(Endpoint(agent, op[c]), payload))]
                  /\ posted' = Append(posted, payload.requestId)
                  /\ pc' = [pc EXCEPT ![c] = "post"]
                  /\ result' = result
                  /\ logged' = <<>>
    /\ UNCHANGED <<agent, runVars, facadeVars, encVars, op, args, postReply, started, toolVars>>

\* faulty variant of PostReply: the response is taken up only once no other
\* call is waiting for its operation POST
PostReply_waitsForOthers(c, http) ==
    /\ pc[c] = "post"
    /\ \A d \in Slots \ {c} : pc[d] # "post"
    /\ postReply' = [postReply EXCEPT ![c] = http]
    /\ result' = [result EXCEPT ![c] = Try(op[c], AfterPost(op[c], http))]
    /\ pc' = [pc EXCEPT ![c] = "done"]
    /\ logged' = HandlerLog(op[c], AfterPost(op[c], http))
    /\ UNCHANGED <<agent, runVars, facadeVars, encVars, op, args, keyReply, sent, nextId, started, posted, toolVars>>

\* the operation POST completes: the rest of the method runs to its return
PostReply(c, http) ==
    /\ pc[c] = "post"
    /\ postReply' = [postReply EXCEPT ![c] = http]
    /\ result' = [result EXCEPT ![c] = Try(op[c], AfterPost(op[c], http))]
    /\ pc' = [pc EXCEPT ![c] = "done"]
    /\ logged' = HandlerLog(op[c], AfterPost(op[c], http))
    /\ UNCHANGED <<agent, runVars, facadeVars, encVars, op, args, keyReply, sent, nextId, started, posted, toolVars>>

\* a direct-SDK method: the third-party call completes and the rest of the
\* try block runs
SdkReply(c, outcome) ==
    /\ pc[c] = "sdk"
    /\ outcome \in ClientOutcomes(op[c])
    /\ postReply' = [postReply EXCEPT ![c] = outcome]
    /\ result' = [result EXCEPT ![c] = Try(op[c], AfterClient(op[c], outcome))]
    /\ pc' = [pc EXCEPT ![c] = "done"]
    /\ UNCHANGED <<agent, runVars, logged, facadeVars, encVars, op, args, keyReply, sent, nextId, started, posted, toolVars>>

\* faulty variant of Return: the private key is wiped from the agent once a
\* call has used it
Return_wipesKey(c) ==
    /\ pc[c] = "done"
    /\ pc' = [pc EXCEPT ![c] = "idle"]
    /\ op' = [op EXCEPT ![c] = NoOp]
    /\ args' = [args EXCEPT ![c] = EmptyMap]
    /\ keyReply' = [keyReply EXCEPT ![c] = Pending]
    /\ postReply' = [postReply EXCEPT ![c] = Pending]
    /\ sent' = [sent EXCEPT ![c] = <<>>]
    /\ result' = [result EXCEPT ![c] = Pending]
    /\ agent' = [agent EXCEPT !.private_key = <<>>]
    /\ logged' = <<>>
    /\ UNCHANGED <<runVars, facadeVars, encVars, nextId, started, posted, toolVars>>

\* the caller takes the outcome; the activation and its locals are gone
Return(c) ==
    /\ pc[c] = "done"
    /\ pc' = [pc EXCEPT ![c] = "idle"]
    /\ op' = [op EXCEPT ![c] = NoOp]
    /\ args' = [args EXCEPT ![c] = EmptyMap]
    /\ keyReply' = [keyReply EXCEPT ![c] = Pending]
    /\ postReply' = [postReply EXCEPT ![c] = Pending]
    /\ sent' = [sent EXCEPT ![c] = <<>>]
    /\ result' = [result EXCEPT ![c] = Pending]
    /\ logged' = <<>>
    /\ UNCHANGED <<agent, runVars, facadeVars, encVars, nextId, started, posted, toolVars>>

\* a tool is run through one of its entry points, with an input string
\* (given) or, where the method declares no input, possibly without: _run
\* raises at once, the try block runs up to the facade call or to the
\* exception it catches
ToolInvoke(name, entry, given, input) ==
    /\ toolPc = "idle"
    /\ facadePc = "idle"
    /\ ~given => (input = "" /\ ~DeclaresInput(name, entry))
    /\ \A d \in Slots : pc[d] = "idle"
    /\ toolRuns < MaxToolRuns
    /\ toolRuns' = toolRuns + 1
    /\ tool' = [name |-> name, entry |-> entry, given |-> given, input |-> input]
    /\ IF given # DeclaresInput(name, entry)
       THEN /\ toolResult' = ArgumentMismatch
            /\ toolPc' = "done"
       ELSE IF ~RunsTryBlock(name, entry)
       THEN /\ toolResult' = NotImplemented
            /\ toolPc' = "done"
       ELSE IF ToolPrepare(name, input).k = "raise"
       THEN /\ toolResult' = ToolTryInput(name, input, ToolPrepare(name, input))
            /\ toolPc' = "done"
       ELSE /\ toolResult' = Pending
            /\ toolPc' = "await"
    /\ UNCHANGED <<agent, runVars, logged, facadeVars, encVars, callVars, nextId, started, posted, facadeReply>>

\* the awaited facade method returns or raises; the try block finishes
FacadeReply(outcome) ==
    /\ toolPc = "await"
    /\ facadeReply' = outcome
    /\ toolResult' = ToolTryInput(tool.name, tool.input,
                                  IF outcome.k = "raise" THEN outcome
                                  ELSE Ret(ToolSuccess(tool.name, tool.input, outcome.v)))
    /\ toolPc' = "done"
    /\ UNCHANGED <<agent, runVars, logged, facadeVars, encVars, callVars, nextId, started, posted, tool, toolRuns>>

\* the tool's caller takes the outcome
ToolReturn ==
    /\ toolPc = "done"
    /\ toolPc' = "idle"
    /\ tool' = NoTool
    /\ facadeReply' = Pending
    /\ toolResult' = Pending
    /\ UNCHANGED <<agent, runVars, logged, facadeVars, encVars, callVars, nextId, started, posted, toolRuns>>

\* JitoManager: a method is called on the class, get_tip_accounts with the
\* agent; the method runs to its end
JitoCall(c, o, http, pick) ==
    /\ \A d \in Slots : pc[d] = "idle"
    /\ toolPc = "idle"
    /\ facadePc = "idle"
    /\ started < MaxCalls
    /\ started' = started + 1
    /\ op' = [op EXCEPT ![c] = o]
    /\ args' = [args EXCEPT ![c] = EmptyMap]
    /\ result' = [result EXCEPT ![c] = IF o = "get_tip_accounts"
                                       THEN get_tip_accounts(<<agent>>, http)
                                       ELSE get_random_tip_account(http, pick)]
    /\ pc' = [pc EXCEPT ![c] = "done"]
    /\ UNCHANGED <<agent, runVars, logged, facadeVars, encVars, keyReply, postReply, sent, nextId, posted, toolVars>>

\* a facade method is called, on the instance or on the class, with k
\* arguments of the caller; the call runs to its end
FacadeCall(m, via, k, inner, http, pick) ==
    /\ \A d \in Slots : pc[d] = "idle"
    /\ toolPc = "idle"
    /\ facadePc = "idle"
    /\ started < MaxCalls
    /\ started' = started + 1
    /\ facade' = [method |-> m, via |-> via, nargs |-> k,
                  manager |-> IF Bind("SolanaAgentKit." \o m, FacadeParams(m), FacadeRequired(m),
                                      IF via = "instance" THEN k + 1 ELSE k).k = "raise"
                              THEN Pending
                              ELSE FacadeManagerCall(m, agent, inner, http, pick),
                  passed |-> IF Bind("SolanaAgentKit." \o m, FacadeParams(m), FacadeRequired(m),
                                     IF via = "instance" THEN k + 1 ELSE k).k = "raise"
                             THEN <<>>
                             ELSE Passed(m)]
    /\ facadeResult' = FacadeMethod(m, IF via = "instance" THEN k + 1 ELSE k,
                                    agent, inner, http, pick)
    /\ facadePc' = "done"
    /\ UNCHANGED <<agent, runVars, logged, encVars, callVars, nextId, posted, toolVars>>

\* the facade's caller takes the outcome
FacadeReturn ==
    /\ facadePc = "done"
    /\ facadePc' = "idle"
    /\ facade' = NoFacade
    /\ facadeResult' = Pending
    /\ UNCHANGED <<agent, runVars, logged, encVars, callVars, nextId, started, posted, toolVars>>

Next ==
    \/ \E c \in Slots, o \in Ops : \E a \in ArgsOf(o) : ManagerCall(c, o, a)
    \/ \E c \in Slots : \E http \in KeyReplies(nextId) : KeyReply(c, http)
    \/ \E c \in Slots : \E http \in PostReplies : PostReply(c, http)
    \/ \E c \in Slots : \E outcome \in SdkOutcomes \cup DeBridgeReplies : SdkReply(c, outcome)
    \/ \E c \in Slots : Return(c)
    \/ \E name \in Tools : \E entry \in EntryPoints(name), given \in BOOLEAN, input \in ToolInputs :
            ToolInvoke(name, entry, given, input)
    \/ \E outcome \in FacadeOutcomes : FacadeReply(outcome)
    \/ ToolReturn
    \/ \E c \in Slots, o \in JitoOps : \E http \in JitoReplies, pick \in DOMAIN TipAccounts :
            JitoCall(c, o, http, pick)
    \/ \E m \in FacadeMethods, via \in {"instance", "class"} : \E k \in FacadeArgCounts(m) :
            \E inner \in InnerOutcomes(m), http \in FacadeReplies(m), pick \in FacadePicks(m) :
                FacadeCall(m, via, k, inner, http, pick)
    \/ FacadeReturn

Spec == Init /\ [][Next]_vars

\* ------------------------------------------------ calls from several threads
\* the manager methods hold no lock and wait for no other call: a method can
\* be entered while other calls are between their requests.  The operations,
\* arguments and replies drawn here are a part of those of Spec: calls that
\* pass validation, and one reply of each kind
ConcurrentOps == {"close_perp_trade_short", "flash_open_trade"}
ConcurrentArgs(o) == {a \in ArgsOf(o) : ValidationCheck(o, a).k # "raise"}
ConcurrentKeyReplies(n) == {TransportFailure, Response(200, PyDict(FullKeyBody(n)))}
ConcurrentPostReplies ==
    {TransportFailure,
     Response(500, NotJson),
     Response(200, PyDict([success |-> PyTrue, value |-> PyStr("5hGx"), message |-> PyStr("done")])),
     Response(200, PyDict([success |-> PyTrue, value |-> PyStr("9kLm"), message |-> PyStr("done")])),
     Response(200, PyDict([success |-> PyFalse, error |-> PyStr("Insufficient balance")]))}

\* a proxied method is entered, whatever the other calls are doing
ConcurrentCall(c, o, a) ==
    /\ pc[c] = "idle"
    /\ toolPc = "idle"
    /\ facadePc = "idle"
    /\ started < MaxCalls
    /\ started' = started + 1
    /\ op' = [op EXCEPT ![c] = o]
    /\ args' = [args EXCEPT ![c] = a]
    /\ IF ValidationCheck(o, a).k = "raise"
       THEN /\ result' = [result EXCEPT ![c] = Try(o, ValidationCheck(o, a))]
            /\ pc' = [pc EXCEPT ![c] = "done"]
            /\ sent' = sent
       ELSE /\ result' = result
            /\ pc' = [pc EXCEPT ![c] = "key"]
            /\ sent' = [sent EXCEPT ![c] = <<KeyRequest>>]
    /\ logged' = HandlerLog(o, ValidationCheck(o, a))
    /\ UNCHANGED <<agent, runVars, facadeVars, encVars, keyReply, postReply, nextId, posted, toolVars>>

NextConcurrent ==
    \/ \E c \in Slots, o \in ConcurrentOps : \E a \in ConcurrentArgs(o) : ConcurrentCall(c, o, a)
    \/ \E c \in Slots : \E http \in ConcurrentKeyReplies(nextId) : KeyReply(c, http)
    \/ \E c \in Slots : \E http \in ConcurrentPostReplies : PostReply(c, http)
    \/ \E c \in Slots : Return(c)

SpecConcurrent == Init /\ [][NextConcurrent]_vars

\* the same calls where every request of the call in slot 1 is answered in
\* the end (requests.post returns or raises); nothing is assumed about the
\* requests of the other calls
LiveOps == {"flash_open_trade", "get_all_domains_tlds"}
NextLive ==
    \/ \E c \in Slots, o \in LiveOps : \E a \in ArgsOf(o) : ConcurrentCall(c, o, a)
    \/ \E c \in Slots : \E http \in ConcurrentKeyReplies(nextId) : KeyReply(c, http)
    \/ \E c \in Slots : \E http \in ConcurrentPostReplies : PostReply(c, http)
    \/ \E c \in Slots : Return(c)
\* the step that ends the wait of call c for its key-issuance POST, whatever
\* the reply was; under NextLive these are the KeyReply steps of c
KeyAnswered(c) ==
    /\ pc[c] = "key"
    /\ pc' \in {[pc EXCEPT ![c] = "post"], [pc EXCEPT ![c] = "done"]}
SpecLive ==
    /\ Init
    /\ [][NextLive]_vars
    /\ WF_pc(KeyAnswered(1))
    /\ WF_vars(\E http \in ConcurrentPostReplies : PostReply(1, http))

\* ------------------------------------------- encrypt_private_key on its own
\* the function is called with a string; Init draws the string
InitEncrypt ==
    /\ agent \in Agents
    /\ pc = [c \in Slots |-> "idle"]
    /\ op = [c \in Slots |-> NoOp]
    /\ args = [c \in Slots |-> EmptyMap]
    /\ keyReply = [c \in Slots |-> Pending]
    /\ postReply = [c \in Slots |-> Pending]
    /\ sent = [c \in Slots |-> <<>>]
    /\ result = [c \in Slots |-> Pending]
    /\ nextId = 1
    /\ started = 0
    /\ posted = <<>>
    /\ toolPc = "idle"
    /\ tool = NoTool
    /\ facadeReply = Pending
    /\ toolResult = Pending
    /\ toolRuns = 0
    /\ facadePc = "idle"
    /\ facade = NoFacade
    /\ facadeResult = Pending
    /\ plainKey \in KeyStrings
    /\ envelope = Pending
    /\ encLocals = NoLocals
    /\ logged = <<>>
    /\ runPc = "idle"
    /\ run = NoRun
    /\ trace = <<>>
    /\ runResult = Pending

\* encrypt_private_key(plainKey) runs to its end, given what the
\* key-issuance POST produced: the locals padding_length and
\* padded_private_key exist once the handshake and the cipher construction
\* have passed
EncryptCall(http) ==
    /\ envelope = Pending
    /\ envelope' = encrypt_private_key(plainKey, http)
    /\ encLocals' =
          LET got == get_encryption_key(http)
          IN IF got.k = "raise" \/ got.v.encryption_key.len \notin {16, 24, 32}
                \/ got.v.iv.len # BlockSize
             THEN [http |-> http]
             ELSE [http |-> http,
                   padding_length |-> padding_length(plainKey),
                   padded_private_key |-> padded_private_key(plainKey)]
    /\ UNCHANGED <<agent, runVars, logged, plainKey, facadeVars, callVars, nextId, started, posted, toolVars>>

\* the caller takes the outcome
EncryptReturn ==
    /\ envelope # Pending
    /\ envelope' = Pending
    /\ encLocals' = NoLocals
    /\ UNCHANGED <<agent, runVars, logged, plainKey, facadeVars, callVars, nextId, started, posted, toolVars>>

NextEncrypt ==
    \/ \E http \in KeyReplies(nextId) : EncryptCall(http)
    \/ EncryptReturn

SpecEncrypt == InitEncrypt /\ [][NextEncrypt]_vars

TypeOK ==
    /\ agent \in Agents
    /\ \A c \in Slots : pc[c] \in {"idle", "key", "post", "sdk", "done"}
    /\ started \in 0..MaxCalls
    /\ nextId \in 1..(MaxCalls + 1)
    /\ toolPc \in {"idle", "await", "done"}
    /\ toolRuns \in 0..MaxToolRuns
    /\ facadePc \in {"idle", "done"}

\* ------------------------------------------------ transactions on the chain
\* execute_debridge_transaction (DeBridgeManager) and send_transaction
\* (SolanaWalletClient), step by step: each call the method makes to the RPC
\* client is one step, answered by what the client produces

\* what the RPC client hands back: a response object with a value attribute,
\* or a dict
TypedResp(value) == [t |-> "resp", value |-> value]
TxIds == {PyStr("sig1"), PyStr("sig2")}
RpcFailure == Raise("SolanaRpcException", "rpc unreachable")
BlockhashReplies ==
    {RpcFailure,
     Ret(TypedResp([blockhash |-> PyStr("hash"), last_valid_block_height |-> PyNum(100)])),
     Ret(PyDict([blockhash |-> PyStr("hash"), lastValidBlockHeight |-> PyNum(100)])),
     Ret(PyDict([result |-> PyDict([value |-> PyDict([blockhash |-> PyStr("hash"),
                                                      lastValidBlockHeight |-> PyNum(100)])])]))}
SendReplies ==
    {RpcFailure} \cup {Ret(TypedResp(id)) : id \in TxIds}
    \cup {Ret(PyDict([result |-> id])) : id \in TxIds}
ConfirmReplies ==
    {Raise("UnconfirmedTxError", "Unable to confirm transaction"),
     Ret(TypedResp(PyList(<<PyStr("confirmed")>>)))}

\* the transaction data a caller passes to execute_debridge_transaction
Base64Of(what) == [t |-> "b64", what |-> what, id |-> 1, len |-> 64]
TransactionData ==
    {None, PyDict(EmptyMap), PyDict([tx |-> PyStr("x")]),
     PyDict([data |-> PyStr("not base64")]),
     PyDict([data |-> Base64Of("garbage")]),
     PyDict([data |-> Base64Of("transaction")])}
\* the SolanaTransaction a caller passes to send_transaction
SolanaTransactions ==
    {[instructions |-> <<"ix">>, accounts_to_sign |-> None],
     [instructions |-> <<"ix", "ix2">>, accounts_to_sign |-> PyList(<<PyStr("signer2")>>)]}
TransactionFns == {"execute_debridge_transaction", "send_transaction"}
RunInputs(fn) == IF fn = "send_transaction" THEN SolanaTransactions ELSE TransactionData

\* VersionedTransaction.from_bytes(raw)
from_bytes(raw) ==
    IF raw.what = "transaction" THEN Ret([t |-> "vtx", of |-> raw])
    ELSE Raise("ValueError", "failed to deserialize transaction")

\* obj[key] and obj.value on what the RPC client handed back
ItemOf(obj, key) ==
    IF obj.t = "resp" THEN Raise("TypeError", "object is not subscriptable")
    ELSE Subscript(obj, key)
ValueOf(obj) ==
    IF obj.t = "resp" THEN Ret(obj.value)
    ELSE Raise("AttributeError", "'dict' object has no attribute 'value'")

\* how an exception leaves the method: execute_debridge_transaction wraps it,
\* send_transaction has no try block
RunExcept(fn, exc) ==
    IF fn = "execute_debridge_transaction" /\ IsInstance(exc, "Exception")
    THEN Raise("Exception", "Error executing transaction: " \o StrOfExc(exc))
    ELSE exc

\* the method up to its first RPC call: Ret(None) or the raise
RunPrepare(fn, input) ==
    IF fn = "send_transaction" THEN Ret(None)
    ELSE IF ~Truthy(input) \/ ~Contains(input, "data")
    THEN Raise("Exception", "Invalid transaction data provided for execution.")
    ELSE IF b64decode(input.d["data"]).k = "raise"
    THEN RunExcept(fn, b64decode(input.d["data"]))
    ELSE IF from_bytes(b64decode(input.d["data"]).v).k = "raise"
    THEN RunExcept(fn, from_bytes(b64decode(input.d["data"]).v))
    ELSE Ret(None)

\* the method between get_latest_blockhash and send_transaction
AfterBlockhash(fn, out) ==
    IF out.k = "raise" THEN RunExcept(fn, out)
    ELSE IF fn = "send_transaction"
    THEN IF ValueOf(out.v).k = "raise" THEN ValueOf(out.v) ELSE Ret(ValueOf(out.v).v.blockhash)
    ELSE out

\* the method between send_transaction and confirm_transaction: Ret(the
\* transaction id) or the raise
AfterSend(fn, latest_blockhash, out) ==
    IF out.k = "raise" THEN RunExcept(fn, out)
    ELSE IF fn = "send_transaction" THEN ValueOf(out.v)
    ELSE IF ItemOf(out.v, "result").k = "raise" THEN RunExcept(fn, ItemOf(out.v, "result"))
    ELSE IF ItemOf(latest_blockhash, "lastValidBlockHeight").k = "raise"
    THEN RunExcept(fn, ItemOf(latest_blockhash, "lastValidBlockHeight"))
    ELSE ItemOf(out.v, "result")

\* faulty variant of AfterConfirm: the id is returned whatever the
\* confirmation produced
AfterConfirm_ignoresFailure(fn, tx_id, out) ==
    IF fn = "send_transaction" THEN Ret(PyDict([hash |-> tx_id])) ELSE Ret(tx_id)

\* the method after confirm_transaction
AfterConfirm(fn, tx_id, out) ==
    IF out.k = "raise" THEN RunExcept(fn, out)
    ELSE IF fn = "send_transaction" THEN Ret(PyDict([hash |-> tx_id]))
    ELSE Ret(tx_id)

\* the method is called; it runs up to its first RPC call
TransactionCall(fn, input) ==
    /\ runPc = "idle"
    /\ input \in RunInputs(fn)
    /\ run' = [fn |-> fn, input |-> input]
    /\ IF RunPrepare(fn, input).k = "raise"
       THEN /\ runResult' = RunPrepare(fn, input)
            /\ runPc' = "done"
            /\ trace' = <<>>
       ELSE /\ runResult' = Pending
            /\ runPc' = "blockhash"
            /\ trace' = <<"get_latest_blockhash">>
    /\ UNCHANGED <<agent, logged, facadeVars, encVars, callVars, nextId, started, posted, toolVars>>

\* get_latest_blockhash is answered; the method signs and sends
BlockhashReply(out) ==
    /\ runPc = "blockhash"
    /\ IF AfterBlockhash(run.fn, out).k = "raise"
       THEN /\ runResult' = AfterBlockhash(run.fn, out)
            /\ runPc' = "done"
            /\ UNCHANGED <<run, trace>>
       ELSE /\ run' = [fn |-> run.fn, input |-> run.input,
                       latest_blockhash |-> AfterBlockhash(run.fn, out).v]
            /\ trace' = trace \o <<"sign", "send_transaction">>
            /\ runPc' = "send"
            /\ runResult' = runResult
    /\ UNCHANGED <<agent, logged, facadeVars, encVars, callVars, nextId, started, posted, toolVars>>

\* send_transaction is answered; the method asks for the confirmation
SendReply(out) ==
    /\ runPc = "send"
    /\ IF AfterSend(run.fn, run.latest_blockhash, out).k = "raise"
       THEN /\ runResult' = AfterSend(run.fn, run.latest_blockhash, out)
            /\ runPc' = "done"
            /\ UNCHANGED <<run, trace>>
       ELSE /\ run' = [fn |-> run.fn, input |-> run.input,
                       latest_blockhash |-> run.latest_blockhash,
                       tx_id |-> AfterSend(run.fn, run.latest_blockhash, out).v]
            /\ trace' = Append(trace, "confirm_transaction")
            /\ runPc' = "confirm"
            /\ runResult' = runResult
    /\ UNCHANGED <<agent, logged, facadeVars, encVars, callVars, nextId, started, posted, toolVars>>

\* confirm_transaction is answered; the method ends
ConfirmReply(out) ==
    /\ runPc = "confirm"
    /\ run' = [fn |-> run.fn, input |-> run.input, latest_blockhash |-> run.latest_blockhash,
               tx_id |-> run.tx_id, confirmation |-> out]
    /\ runResult' = AfterConfirm(run.fn, run.tx_id, out)
    /\ runPc' = "done"
    /\ UNCHANGED <<agent, logged, facadeVars, encVars, callVars, nextId, started, posted, toolVars,
                   trace>>

\* the caller takes the outcome
RunReturn ==
    /\ runPc = "done"
    /\ runPc' = "idle"
    /\ run' = NoRun
    /\ trace' = <<>>
    /\ runResult' = Pending
    /\ UNCHANGED <<agent, logged, facadeVars, encVars, callVars, nextId, started, posted, toolVars>>

\* ------------------------------------------------------ deBridge order status
\* check_transaction_status: the order ids of a transaction are looked up,
\* then the status of each order is asked for

\* the names defined in the body of class DeBridgeManager
DeBridgeManagerAttrs ==
    {"create_debridge_transaction", "execute_debridge_transaction", "check_transaction_status"}
\* DeBridgeManager.<name>
ClassAttr(name) ==
    IF name \in DeBridgeManagerAttrs THEN Ret([t |-> "function", name |-> name])
    ELSE Raise("AttributeError",
               "type object 'DeBridgeManager' has no attribute '" \o name \o "'")

MaxOrders == 2
OrderIds == [i \in 1..MaxOrders |-> PyStr("o" \o ToString(i))]
TxHashes == {PyStr("0xabc")}
\* what the order-id lookup is answered with
OrderIdsReplies ==
    {TransportFailure, Response(500, NotJson), Response(200, NotJson),
     Response(200, PyDict(EmptyMap)),
     Response(200, PyDict([orderIds |-> PyList(<<>>)]))}
    \cup {Response(200, PyDict([orderIds |-> PyList(SubSeq(OrderIds, 1, n))])) : n \in 1..MaxOrders}
\* what a status request is answered with
StatusReplies ==
    {TransportFailure, Response(500, NotJson),
     Response(200, PyDict([status |-> PyStr("Fulfilled")]))}

\* `if not response.ok: raise Exception(...)`, then response.json()
OkJson(http) ==
    IF http.k = "raise" THEN http
    ELSE IF http.status >= 400
    THEN Raise("Exception", "HTTP error! status: " \o ToString(http.status)
                            \o ", body: " \o ResponseText(http))
    ELSE json(http)

\* the for loop from the i-th order id on, given the statuses collected and
\* what each status request is answered with: the outcome and the number of
\* status requests made
RECURSIVE StatusLoop(_, _, _, _)
StatusLoop(order_ids, replies, i, statuses) ==
    IF i > Len(order_ids) THEN [out |-> Ret(PyList(statuses)), asked |-> i - 1]
    ELSE IF ClassAttr("BASE_URL").k = "raise"
    THEN [out |-> ClassAttr("BASE_URL"), asked |-> i - 1]
    ELSE IF OkJson(replies[i]).k = "raise" THEN [out |-> OkJson(replies[i]), asked |-> i]
    ELSE StatusLoop(order_ids, replies, i + 1,
                    Append(statuses,
                           PyDict(DictMerge(OkJson(replies[i]).v.d,
                                            [orderLink |->
                                                PyStr("https://app.debridge.finance/order?orderId="
                                                      \o order_ids[i].s)]))))

\* the try block after the order-id lookup
AfterOrderIds(http, replies) ==
    IF OkJson(http).k = "raise" THEN [out |-> OkJson(http), asked |-> 0]
    ELSE IF ~Contains(OkJson(http).v, "orderIds") \/ ~Truthy(OkJson(http).v.d["orderIds"])
    THEN [out |-> Raise("Exception", "No order IDs found for this transaction"), asked |-> 0]
    ELSE StatusLoop(OkJson(http).v.d["orderIds"].l, replies, 1, <<>>)

\* except Exception as e: raise Exception(...)
StatusExcept(outcome) ==
    IF outcome.k = "raise" /\ IsInstance(outcome, "Exception")
    THEN Raise("Exception", "Failed to check transaction status: " \o StrOfExc(outcome))
    ELSE outcome

\* check_transaction_status is called; it sends the order-id lookup
CheckStatusCall(tx_hash) ==
    /\ runPc = "idle"
    /\ run' = [fn |-> "check_transaction_status", input |-> tx_hash]
    /\ trace' = <<"GET order-ids">>
    /\ runPc' = "orderids"
    /\ runResult' = Pending
    /\ UNCHANGED <<agent, logged, facadeVars, encVars, callVars, nextId, started, posted, toolVars>>

\* the lookup is answered; the method runs to its end, the status requests
\* it makes being answered by replies
OrderIdsReply(http, replies) ==
    /\ runPc = "orderids"
    /\ run' = [fn |-> run.fn, input |-> run.input, lookup |-> http, replies |-> replies]
    /\ trace' = trace \o [i \in 1..AfterOrderIds(http, replies).asked |-> "GET status"]
    /\ runResult' = StatusExcept(AfterOrderIds(http, replies).out)
    /\ runPc' = "done"
    /\ UNCHANGED <<agent, logged, facadeVars, encVars, callVars, nextId, started, posted, toolVars>>

\* ----------------------------------------------------------- Cybers coins
\* CybersManager.create_coin: the wallet is authenticated, then the coin is
\* created with the token; a str is a sequence of code points here

\* the encoders of Python's base64 module
Base64Attrs ==
    {"b64encode", "b32encode", "b32hexencode", "b16encode", "a85encode", "b85encode",
     "standard_b64encode", "urlsafe_b64encode", "encodebytes"}
\* base64.<name>
ModuleAttr(name) ==
    IF name \in Base64Attrs THEN Ret([t |-> "function", name |-> name])
    ELSE Raise("AttributeError", "module 'base64' has no attribute '" \o name \o "'")

\* CybersManager._sign_message(keypair, message)
sign_message(keypair, message) ==
    IF ModuleAttr("b58encode").k = "raise" THEN ModuleAttr("b58encode")
    ELSE Ret([t |-> "signature", by |-> keypair, of |-> message])

\* str[:n] and str.lower()
Take(str, n) == SubSeq(str, 1, IF Len(str) < n THEN Len(str) ELSE n)
lower(str) == [i \in DOMAIN str |-> IF str[i] \in 65..90 THEN str[i] + 32 ELSE str[i]]

\* the names, symbols and image paths a caller passes
CoinNames == {[i \in 1..n |-> 78] : n \in {3, 64, 65}}
CoinSymbols == {[i \in 1..n |-> 83] : n \in {3, 10, 11}}
ImagePaths == {"token.jpg", "missing.jpg"}
\* open(image_path, "rb").read()
ReadImage(image_path) ==
    IF image_path = "token.jpg" THEN Ret([t |-> "bytes", of |-> image_path])
    ELSE Raise("FileNotFoundError", "[Errno 2] No such file or directory: '" \o image_path \o "'")

\* what the two endpoints answer
AuthReplies ==
    {TransportFailure, Response(401, NotJson), Response(200, NotJson),
     Response(200, PyDict(EmptyMap)),
     Response(200, PyDict([token |-> PyStr("")])),
     Response(200, PyDict([token |-> PyStr("jwt")]))}
CoinReplies ==
    {TransportFailure, Response(500, NotJson),
     Response(200, PyDict([mintAddress |-> PyStr("Mint1")]))}

\* the two requests
AuthRequest(kit, signature) ==
    [url |-> "/auth/verify-signature",
     json |-> [walletAddress |-> kit.wallet_address, signature |-> signature,
               message |-> "Sign in to Cyber"]]
CoinRequest(jwt_token, name, symbol, image_data, id, username) ==
    [url |-> "/coin/create", bearer |-> jwt_token, image |-> image_data,
     data |-> [name |-> name, symbol |-> symbol, twitter |-> lower(symbol),
               creatorTwitterUserId |-> id, creatorTwitterUsername |-> username]]

\* try/except Exception of the two methods
CybersExcept(prefix, outcome) ==
    IF outcome.k = "raise" /\ IsInstance(outcome, "Exception")
    THEN Raise("Exception", prefix \o StrOfExc(outcome))
    ELSE outcome

\* authenticate_wallet(agent), given what the POST is answered with: the
\* outcome and the requests sent
authenticate_wallet(kit, http) ==
    LET signature == sign_message(kit.wallet, "Sign in to Cyber")
        after == IF http.k = "raise" THEN http
                 ELSE IF http.status = 200
                 THEN IF json(http).k = "raise" THEN json(http)
                      ELSE Ret(DictGet(json(http).v.d, "token"))
                 ELSE Raise("Exception", "Authentication failed: " \o ResponseText(http))
    IN IF signature.k = "raise"
       THEN [out |-> CybersExcept("Error during wallet authentication: ", signature),
             sent |-> <<>>]
       ELSE [out |-> CybersExcept("Error during wallet authentication: ", after),
             sent |-> <<AuthRequest(kit, signature.v)>>]

\* create_coin(agent, name, symbol, image_path, ...), given what the two
\* POSTs are answered with
create_coin(kit, name, symbol, image_path, authHttp, coinHttp) ==
    LET auth == authenticate_wallet(kit, authHttp)
        image == ReadImage(image_path)
        request == CoinRequest(auth.out.v, Take(name, 64), Take(symbol, 10), image.v,
                               "1", "author")
        after == IF coinHttp.k = "raise" THEN coinHttp
                 ELSE IF coinHttp.status = 200 THEN json(coinHttp)
                 ELSE Raise("Exception", "Failed to create coin: " \o ResponseText(coinHttp))
    IN IF auth.out.k = "raise"
       THEN [out |-> CybersExcept("Error creating coin: ", auth.out), sent |-> auth.sent]
       ELSE IF ~Truthy(auth.out.v)
       THEN [out |-> CybersExcept("Error creating coin: ",
                                  Raise("Exception", "Failed to retrieve JWT token.")),
             sent |-> auth.sent]
       ELSE IF image.k = "raise"
       THEN [out |-> CybersExcept("Error creating coin: ", image), sent |-> auth.sent]
       ELSE [out |-> CybersExcept("Error creating coin: ", after),
             sent |-> Append(auth.sent, request)]

\* create_coin is called and runs to its end, the requests it makes being
\* answered by authHttp and coinHttp
CreateCoin(name, symbol, image_path, authHttp, coinHttp) ==
    /\ runPc = "idle"
    /\ run' = [fn |-> "create_coin",
               input |-> [name |-> name, symbol |-> symbol, image_path |-> image_path],
               auth |-> authHttp, coin |-> coinHttp]
    /\ trace' = create_coin(agent, name, symbol, image_path, authHttp, coinHttp).sent
    /\ runResult' = create_coin(agent, name, symbol, image_path, authHttp, coinHttp).out
    /\ runPc' = "done"
    /\ UNCHANGED <<agent, logged, facadeVars, encVars, callVars, nextId, started, posted, toolVars>>

NextRun ==
    \/ \E fn \in TransactionFns : \E input \in RunInputs(fn) : TransactionCall(fn, input)
    \/ \E out \in BlockhashReplies : BlockhashReply(out)
    \/ \E out \in SendReplies : SendReply(out)
    \/ \E out \in ConfirmReplies : ConfirmReply(out)
    \/ \E tx_hash \in TxHashes : CheckStatusCall(tx_hash)
    \/ \E http \in OrderIdsReplies : \E replies \in [1..MaxOrders -> StatusReplies] :
            OrderIdsReply(http, replies)
    \/ \E name \in CoinNames, symbol \in CoinSymbols, image_path \in ImagePaths :
            \E authHttp \in AuthReplies, coinHttp \in CoinReplies :
                CreateCoin(name, symbol, image_path, authHttp, coinHttp)
    \/ RunReturn

SpecRun == Init /\ [][NextRun]_vars

\* ====================================================================== claims
\* helper predicates of the claims
IsSuccessEnvelope(v) ==
    /\ v.t = "dict"
    /\ DOMAIN v.d \in {{"success", "value", "message"}, {"success", "transaction", "message"}}
    /\ v.d.success = PyTrue
IsFailureEnvelope(v) ==
    /\ v.t = "dict"
    /\ DOMAIN v.d = {"success", "error"}
    /\ v.d.success = PyFalse
IsEnvelope(v) == IsSuccessEnvelope(v) \/ IsFailureEnvelope(v)

\* the call in slot c has returned to its caller's hands
Done(c) == pc[c] = "done"
\* the operation POST of slot c was answered with a 2xx status and a JSON object
Got2xxObject(c) ==
    /\ postReply[c] # Pending
    /\ postReply[c].k = "response"
    /\ postReply[c].status < 400
    /\ postReply[c].body.t = "dict"
\* ... whose success flag is true
RemoteSuccess(c) ==
    /\ Got2xxObject(c)
    /\ "success" \in DOMAIN postReply[c].body.d
    /\ postReply[c].body.d.success = PyTrue
\* ... whose success flag is false or missing
RemoteRejection(c) ==
    /\ Got2xxObject(c)
    /\ ("success" \in DOMAIN postReply[c].body.d => postReply[c].body.d.success = PyFalse)
\* the operation POST of slot c was answered with a non-2xx status
GotHttpError(c) ==
    /\ postReply[c] # Pending
    /\ postReply[c].k = "response"
    /\ postReply[c].status >= 400
\* a request of slot c failed in transport
GotTransportFailure(c) ==
    \/ keyReply[c] # Pending /\ keyReply[c].k = "raise"
    \/ postReply[c] # Pending /\ postReply[c].k = "raise"

C2_SuccessCopiedByEveryProxyMethod ==
    \A c \in Slots : (Done(c) /\ op[c] \in ProxyOps /\ RemoteSuccess(c)) =>
        /\ result[c].k = "return"
        /\ IsSuccessEnvelope(result[c].v)
        /\ result[c].v.d[ValueKey(op[c])] = DictGet(postReply[c].body.d, "value")
        /\ result[c].v.d.message = DictGet(postReply[c].body.d, "message")

\* C2 (amended): for every 2xx body whose success flag is true, a method of
\* the Drift, Adrena, Flash and 3Land managers returns success = true with
\* the remote value under value/transaction and the remote message under
\* message, both unchanged (None when the body lacks the field); an
\* AllDomains method returns the remote value itself, without an envelope
\* and without the message.
C2_SuccessCopied ==
    \A c \in Slots : (Done(c) /\ RemoteSuccess(c)) =>
        /\ op[c] \in EnvelopeOps =>
              /\ result[c].k = "return"
              /\ IsSuccessEnvelope(result[c].v)
              /\ DOMAIN result[c].v.d = {"success", "message", ValueKey(op[c])}
              /\ result[c].v.d[ValueKey(op[c])] = DictGet(postReply[c].body.d, "value")
              /\ result[c].v.d.message = DictGet(postReply[c].body.d, "message")
        /\ op[c] = "resolve_all_domains" =>
              result[c] = Ret(DictGet(postReply[c].body.d, "value"))
        /\ op[c] \in AllDomainsOps \ {"resolve_all_domains"} =>
              result[c] = Ret(DictGetDefault(postReply[c].body.d, "value", PyList(<<>>)))

\* C2 witness: a success body with both fields was normalised
C2_Witness ==
    \E c \in Slots :
        /\ Done(c) /\ op[c] \in EnvelopeOps /\ RemoteSuccess(c)
        /\ {"value", "message"} \subseteq DOMAIN postReply[c].body.d
        /\ postReply[c].body.d.value # None
        /\ result[c].v.d[ValueKey(op[c])] = postReply[c].body.d.value

\* C3 (as claimed, for the methods that return envelopes): for every 2xx body
\* whose success flag is false or missing, the method returns success = false
\* with error equal to the remote error field, or "Unknown error" when that
\* field is absent or null.
C3_RejectionError ==
    \A c \in Slots : (Done(c) /\ op[c] \in EnvelopeOps /\ RemoteRejection(c)) =>
        result[c] = Ret(Failure(IF DictGet(postReply[c].body.d, "error") = None
                                THEN PyStr("Unknown error")
                                ELSE postReply[c].body.d.error))

\* the parameters a method declares without a default value
RequiredParams(o) ==
    CASE o = "create_3land_collection" ->
            {"collection_symbol", "collection_name", "collection_description"}
      [] o = "create_3land_nft" ->
            {"item_name", "seller_fee", "item_amount", "item_symbol", "item_description", "traits"}
      [] o = "close_perp_trade_short" -> {"price", "trade_mint"}
      [] o = "flash_open_trade" -> {"token", "side", "collateral_usd", "leverage"}
      [] o = "create_drift_user_account" -> {"deposit_amount", "deposit_symbol"}
      [] o = "drift_swap_spot_token" -> {"from_symbol", "to_symbol"}
      [] o = "resolve_all_domains" -> {"domain"}
      [] o = "get_owned_domains_for_tld" -> {"tld"}
      [] o = "get_owned_all_domains" -> {"owner"}
      [] o = "get_users_open_orders" -> {"symbol"}
      [] o = "execute_order" -> {"order_type", "side", "symbol"}
      [] o = "create_debridge_transaction" ->
            {"src_chain_id", "src_chain_token_in", "src_chain_token_in_amount", "dst_chain_id",
             "dst_chain_token_out", "dst_chain_token_out_recipient",
             "src_chain_order_authority_address", "dst_chain_order_authority_address"}
      [] OTHER -> {}

\* an argument that was left out: None or empty
IsMissing(v) == v \in {None, PyStr(""), PyList(<<>>)}
MissingRequired(o, a) == \E p \in RequiredParams(o) : IsMissing(a[p])

\* the validation messages of the methods
ValidationMessages ==
    {"Collection symbol, name, and description are required.",
     "Item name, seller fee, amount, symbol, description, and traits are required.",
     "Price and trade_mint are required.",
     "Token, side, collateral_usd, and leverage are required.",
     "Deposit amount and deposit symbol are required.",
     "From symbol and to symbol are required."}

C5_HttpErrorFailureEnvelope ==
    \A c \in Slots : (Done(c) /\ op[c] \in ProxyOps /\ GotHttpError(c)) =>
        result[c] = Ret(Failure(PyStr(StrOfExc(raise_for_status(postReply[c])))))

\* C5 (amended): a method of the Drift, Adrena, Flash and 3Land managers whose
\* operation POST is answered with a non-2xx status returns {success: false,
\* error: <the HTTP error as a string>}, whatever the body is; an AllDomains
\* method returns None; in both cases nothing is raised.
C5_HttpError ==
    \A c \in Slots : (Done(c) /\ op[c] \in ProxyOps /\ GotHttpError(c)) =>
        /\ op[c] \in EnvelopeOps =>
              result[c] = Ret(Failure(PyStr(IF postReply[c].status >= 500
                                            THEN "500 Server Error"
                                            ELSE "404 Client Error")))
        /\ op[c] \in AllDomainsOps => result[c] = Ret(None)

\* C5 witness: a 500 reply whose body could not have been parsed
C5_Witness ==
    \E c \in Slots :
        /\ Done(c) /\ op[c] = "flash_open_trade"
        /\ GotHttpError(c) /\ postReply[c].status = 500 /\ postReply[c].body = NotJson
        /\ IsFailureEnvelope(result[c].v)

\* the payload key under which each parameter is sent
WireName ==
    [collection_symbol |-> "collectionSymbol", collection_name |-> "collectionName",
     collection_description |-> "collectionDescription", main_image_url |-> "mainImageUrl",
     cover_image_url |-> "coverImageUrl", is_devnet |-> "isDevnet", item_name |-> "itemName",
     seller_fee |-> "sellerFee", item_amount |-> "itemAmount", item_symbol |-> "itemSymbol",
     item_description |-> "itemDescription", traits |-> "traits", price |-> "price",
     spl_hash |-> "splHash", pool_name |-> "poolName", with_pool |-> "withPool",
     trade_mint |-> "tradeMint", token |-> "token", side |-> "side",
     collateral_usd |-> "collateralUsd", leverage |-> "leverage",
     deposit_amount |-> "depositAmount", deposit_symbol |-> "depositSymbol",
     from_symbol |-> "fromSymbol", to_symbol |-> "toSymbol", slippage |-> "slippage",
     to_amount |-> "toAmount", from_amount |-> "fromAmount", domain |-> "domain",
     tld |-> "tld", owner |-> "owner"]

\* the fields of the operation: its parameters, of the two swap amounts the
\* one the caller supplied
FieldParams(o, a) ==
    IF o = "drift_swap_spot_token"
    THEN DOMAIN a \ {p \in {"to_amount", "from_amount"} : a[p] = None}
    ELSE DOMAIN a

\* the operation POSTs among the requests of slot c
OpPosts(c) == {i \in DOMAIN sent[c] : sent[c][i].kind = "op"}
KeyPosts(c) == {i \in DOMAIN sent[c] : sent[c][i].kind = "key"}

\* C6: the key set of every payload sent to the proxy is exactly the handshake
\* keys, the agent context keys and the operation's own fields, each field
\* carrying the caller's value; drift_swap_spot_token sends exactly one of
\* toAmount and fromAmount, the one supplied.
C6_PayloadKeys ==
    \A c \in Slots : \A i \in OpPosts(c) :
        LET payload == sent[c][i].json.d
        IN /\ DOMAIN payload = {"requestId", "encrypted_private_key", "rpc_url", "open_api_key"}
                               \cup {WireName[p] : p \in FieldParams(op[c], args[c])}
           /\ \A p \in FieldParams(op[c], args[c]) : payload[WireName[p]] = args[c][p]
           /\ payload.rpc_url = agent.rpc_url
           /\ payload.open_api_key = agent.openai_api_key
           /\ op[c] = "drift_swap_spot_token" =>
                 /\ Cardinality({"toAmount", "fromAmount"} \cap DOMAIN payload) = 1
                 /\ "toAmount" \in DOMAIN payload <=> args[c].to_amount # None

\* C6 witness: a swap with to_amount = 0 supplied has been posted
C6_Witness ==
    \E c \in Slots : \E i \in OpPosts(c) :
        /\ op[c] = "drift_swap_spot_token"
        /\ args[c].to_amount = PyNum(0)
        /\ "toAmount" \in DOMAIN sent[c][i].json.d

\* C7: every call that reaches the proxy has sent its own key-issuance request
\* first and posts the request id, key and IV that request returned; given
\* that the issuer never repeats an id, no request id is posted twice.
C7_FreshHandshake ==
    /\ \A c \in Slots : \A i \in OpPosts(c) :
          LET payload == sent[c][i].json.d
          IN /\ i = 2 /\ sent[c][1] = KeyRequest
             /\ keyReply[c] # Pending /\ keyReply[c].k = "response"
             /\ payload.requestId = keyReply[c].body.d.requestId
             /\ payload.encrypted_private_key.t = "ct"
             /\ payload.encrypted_private_key.key.id = keyReply[c].body.d.encryptionKey.id
             /\ payload.encrypted_private_key.iv.id = keyReply[c].body.d.iv.id
             /\ payload.encrypted_private_key.key.id = payload.requestId.n
    /\ \A i, j \in DOMAIN posted : posted[i] = posted[j] => i = j

\* C7 witness: two operation POSTs have been sent with the same private key
C7_Witness ==
    /\ Len(posted) = 2
    /\ posted[1] # posted[2]
    /\ \E c \in Slots : OpPosts(c) # {}

\* the key-issuance step of slot c failed: no reply, or a reply that is not
\* the complete body with a usable key and IV
KeyStepFailed(c) ==
    /\ keyReply[c] # Pending
    /\ \/ keyReply[c].k = "raise"
       \/ keyReply[c].body.t # "dict"
       \/ ~({"requestId", "encryptionKey", "iv"} \subseteq DOMAIN keyReply[c].body.d)
       \/ keyReply[c].body.d.encryptionKey.t # "b64"
       \/ keyReply[c].body.d.encryptionKey.len \notin {16, 24, 32}

\* C8: one proxy-backed call sends at most one key-issuance request and at
\* most one operation POST, the key-issuance request first, and no operation
\* POST when the key-issuance step failed.
C8_NoRetry ==
    \A c \in Slots : op[c] \in ProxyOps =>
        /\ Cardinality(KeyPosts(c)) <= 1
        /\ Cardinality(OpPosts(c)) <= 1
        /\ Len(sent[c]) <= 2
        /\ \A i \in OpPosts(c) : \E j \in KeyPosts(c) : j < i
        /\ KeyStepFailed(c) => OpPosts(c) = {} /\ Done(c)

\* C8 witness: a call ended after a failed key-issuance step, one request sent
C8_Witness ==
    \E c \in Slots :
        /\ Done(c) /\ op[c] = "close_perp_trade_short"
        /\ KeyStepFailed(c)
        /\ sent[c] = <<KeyRequest>>

\* a value a tool hands back as a structured result: a dict, or the JSON text
\* of a dict
IsStructured(v) == v.t = "dict" \/ (v.t = "jsontext" /\ v.of.t = "dict")

\* the tool invocation has finished
ToolDone == toolPc = "done"
\* it went through the entry point that holds the tool's try block: the
\* tool's own _arun, or call on the tools that define call instead of _arun
ViaTryBlock ==
    \/ tool.entry = "call"
    \/ tool.entry = "_arun" /\ tool.name \notin CallTools
\* SolanaTPSCalculatorTool._arun was handed an input string it has no
\* parameter for
InputNotAccepted ==
    tool.name = "SolanaTPSCalculatorTool" /\ tool.entry = "_arun" /\ tool.given

\* the exception the try block caught, if it caught one
Caught ==
    IF ToolPrepare(tool.name, tool.input).k = "raise"
    THEN ToolPrepare(tool.name, tool.input)
    ELSE facadeReply
HasCaught ==
    ToolDone /\ ViaTryBlock /\ ~InputNotAccepted /\ Caught # Pending /\ Caught.k = "raise"

\* C9 (as claimed, for the entry point that holds the try block): a tool
\* handed an input string through its own _arun, or through call on the tools
\* that define call instead, returns a structured result instead of raising,
\* whatever the input and whatever the facade does.
C9_AsyncEntryNeverRaises ==
    (ToolDone /\ ViaTryBlock /\ tool.given) =>
        toolResult.k = "return" /\ IsStructured(toolResult.v)

\* the envelope of C10
ErrorEnvelope(message, code) ==
    PyDict([status |-> PyStr("error"), message |-> PyStr(message), code |-> code])
CodeOrUnknown(exc) == IF "code" \in DOMAIN exc THEN exc.code ELSE PyStr("UNKNOWN_ERROR")

\* C10 (as claimed): every tool that catches an exception returns exactly
\* status = "error", message = the exception text and code = the exception's
\* code attribute or "UNKNOWN_ERROR", the same shape for all tools.
C10_UniformErrorEnvelope ==
    HasCaught => toolResult = Ret(ErrorEnvelope(Caught.msg, CodeOrUnknown(Caught)))

\* C10 (amended): a tool that catches an exception returns a result whose
\* shape depends on the tool.  SolanaBalanceTool and the tools written like
\* it return exactly status = "error", message = the exception text and
\* code = the exception's code attribute or "UNKNOWN_ERROR" (the tools with
\* call return it as JSON text; SolanaTPSCalculatorTool puts a fixed text
\* before the exception text).  SolanaPythGetPriceTool and the tools written
\* like it return status and message only.  The Backpack tools and the tools
\* written like them return their result key with None and a message with a
\* fixed text before the exception text.  The Jito tools return their result
\* key with None and nothing else.
C10_ErrorShapePerTool ==
    HasCaught =>
        /\ tool.name \in CodeTools =>
              toolResult = Ret(ErrorEnvelope(Caught.msg, CodeOrUnknown(Caught)))
        /\ tool.name \in CallTools =>
              toolResult = Ret(json_dumps(ErrorEnvelope(Caught.msg, CodeOrUnknown(Caught))))
        /\ tool.name \in PrefixCodeTools =>
              toolResult = Ret(ErrorEnvelope("Error fetching TPS: " \o Caught.msg,
                                             CodeOrUnknown(Caught)))
        /\ tool.name \in NoCodeTools =>
              toolResult = Ret(PyDict([status |-> PyStr("error"), message |-> PyStr(Caught.msg)]))
        /\ tool.name \in KeyMessageTools =>
              toolResult = Ret(PyDict([balances |-> None,
                                       message |-> PyStr("Error fetching account balances: "
                                                         \o Caught.msg)]))
        /\ tool.name \in KeyOnlyTools =>
              toolResult = Ret(PyDict([accounts |-> None]))

\* C10 witness: SolanaBalanceTool caught an exception that carries a code
C10_Witness ==
    /\ HasCaught /\ tool.name = "SolanaBalanceTool"
    /\ "code" \in DOMAIN Caught
    /\ toolResult.v.d.code = Caught.code

\* the direct facade call has finished
FacadeDone == facadePc = "done"

\* C11 (as claimed): a call made on a facade instance that fails raises
\* SolanaAgentKitError and nothing else, whichever facade method is called.
C11_OnlyFacadeErrorEscapes ==
    (FacadeDone /\ facade.via = "instance" /\ facadeResult.k = "raise") =>
        facadeResult.cls = "SolanaAgentKitError"

\* the block engine's tip accounts
IsTipAccount(v) == \E i \in DOMAIN TipAccounts : v = TipAccounts[i]

\* C14 (as claimed): JitoManager.get_random_tip_account never raises; it
\* returns None (empty list, failed request) or one of the tip accounts.
C14_RandomTipAccountNoneOrElement ==
    \A c \in Slots : (Done(c) /\ op[c] = "get_random_tip_account") =>
        /\ result[c].k = "return"
        /\ result[c].v = None \/ IsTipAccount(result[c].v)

\* the third-party call of the direct-SDK operation in slot c was made and
\* has come back
ClientAnswered(c) == Done(c) /\ op[c] \in SdkOps /\ postReply[c] # Pending
\* the prefix of operation o is its own: no other direct-SDK operation
\* carries the same one
OwnPrefix(o) == \A o2 \in SdkOps \ {o} : ErrorPrefix(o2) # ErrorPrefix(o)

\* C12 (as claimed): a direct-SDK operation returns the client's return
\* value unchanged when the client call succeeds; when the client call
\* raises it raises one exception whose message is the operation's own
\* prefix followed by the original message; it never returns an envelope.
C12_RawValueOrPrefixedException ==
    \A c \in Slots : ClientAnswered(c) =>
        /\ postReply[c].k = "return" => result[c] = postReply[c]
        /\ (postReply[c].k = "response" /\ postReply[c].status < 400
                /\ postReply[c].body # NotJson) => result[c] = Ret(postReply[c].body)
        /\ postReply[c].k = "raise" =>
              /\ result[c] = Raise("Exception", ErrorPrefix(op[c]) \o postReply[c].msg)
              /\ OwnPrefix(op[c])
        /\ result[c].k = "return" => ~IsFailureEnvelope(result[c].v)

\* C13 (as claimed): a direct-SDK operation called with a required parameter
\* missing raises ValueError and makes no client or network call.
C13_MissingParameterValueError ==
    \A c \in Slots : (pc[c] # "idle" /\ op[c] \in SdkOps /\ MissingRequired(op[c], args[c])) =>
        /\ Done(c)
        /\ sent[c] = <<>>
        /\ result[c].k = "raise"
        /\ result[c].cls = "ValueError"

\* both of the two swap amounts were supplied, or neither
BadAmountPair(a) == (a.to_amount = None) <=> (a.from_amount = None)
AmountPairMessage == PyStr("Provide either 'from_amount' or 'to_amount', but not both.")

\* C15: drift_swap_spot_token called with both of to_amount and from_amount,
\* or with neither, ends at once with a failure envelope carrying the
\* validation message, and has sent no request, neither the key-issuance
\* request nor the operation POST; every swap call that has sent a request
\* was given exactly one of the two amounts.
C15_ExactlyOneAmount ==
    \A c \in Slots : op[c] = "drift_swap_spot_token" =>
        /\ BadAmountPair(args[c]) =>
              /\ Done(c)
              /\ sent[c] = <<>>
              /\ keyReply[c] = Pending /\ postReply[c] = Pending
              /\ result[c].k = "return"
              /\ IsFailureEnvelope(result[c].v)
              /\ result[c].v.d.error \in {AmountPairMessage,
                                          PyStr("From symbol and to symbol are required.")}
              /\ (Truthy(args[c].from_symbol) /\ Truthy(args[c].to_symbol)) =>
                    result[c].v.d.error = AmountPairMessage
        /\ sent[c] # <<>> => ~BadAmountPair(args[c])

\* C15 witness: a swap given both amounts has ended with the validation
\* message and no request sent
C15_Witness ==
    \E c \in Slots :
        /\ Done(c) /\ op[c] = "drift_swap_spot_token"
        /\ args[c].to_amount # None /\ args[c].from_amount # None
        /\ sent[c] = <<>>
        /\ result[c] = Ret(Failure(AmountPairMessage))

\* the encrypt_private_key call has finished / has reached the padding step
EncryptDone == envelope # Pending
Padded == EncryptDone /\ "padded_private_key" \in DOMAIN encLocals

\* removal of the padding: the last character says how many to drop
Unpad(str) == SubSeq(str, 1, Len(str) - str[Len(str)])

\* C16: the padding step appends p copies of the character with code p to the
\* private key, and dropping the last p characters, p read from the final
\* character, gives the private key back.
C16_PaddingRoundTrip ==
    Padded =>
        LET padded == encLocals.padded_private_key
            p == padded[Len(padded)]
        IN /\ Len(padded) = Len(plainKey) + p
           /\ p = encLocals.padding_length
           /\ SubSeq(padded, 1, Len(plainKey)) = plainKey
           /\ \A i \in (Len(plainKey) + 1)..Len(padded) : padded[i] = p
           /\ Unpad(padded) = plainKey

\* C16 witness: a key of 20 characters that ends in characters with code 1
\* was padded with 12 characters and comes back
C16_Witness ==
    /\ Padded
    /\ Len(plainKey) = 20 /\ plainKey[20] = 1
    /\ Len(encLocals.padded_private_key) = 32
    /\ Unpad(encLocals.padded_private_key) = plainKey

\* C17: the padding length lies in 1..16 for every key length, and is 16 when
\* the length is a multiple of 16, 0 included.
C17_PaddingLengthRange ==
    Padded =>
        /\ encLocals.padding_length \in 1..16
        /\ (Len(plainKey) % 16 = 0) => encLocals.padding_length = 16
        /\ (Len(plainKey) + encLocals.padding_length) % 16 = 0

\* C17 witness: the empty key, and a key of 32 characters, got 16
C17_Witness ==
    /\ Padded
    /\ Len(plainKey) \in {0, 32}
    /\ encLocals.padding_length = 16

\* the key-issuance request was answered with the complete body
CompleteIssue ==
    /\ EncryptDone
    /\ encLocals.http.k = "response"
    /\ encLocals.http.body = PyDict(FullKeyBody(nextId))

\* C18 (as claimed): for every private key string the plaintext handed to
\* the cipher is the UTF-8 encoding of the key followed by padding bytes up
\* to a 16-byte boundary, the pad value being the number of padding bytes;
\* the cipher accepts it.
C18_PlaintextBlockAligned ==
    CompleteIssue =>
        /\ envelope.k = "return"
        /\ LET plain == envelope.v.d.encryptedPrivateKey.plain
               keyBytes == encode(plainKey)
           IN /\ Len(plain) > 0
              /\ Len(plain) % 16 = 0
              /\ SubSeq(plain, 1, Len(keyBytes)) = keyBytes
              /\ plain[Len(plain)] = Len(plain) - Len(keyBytes)

\* the handshake failed in one of the three ways of the claim
EndpointUnreachable == EncryptDone /\ encLocals.http.k = "raise"
ErrorStatus == EncryptDone /\ encLocals.http.k = "response" /\ encLocals.http.status >= 400
MissingKeyField ==
    /\ EncryptDone
    /\ encLocals.http.k = "response"
    /\ encLocals.http.body.t = "dict"
    /\ ~({"requestId", "encryptionKey", "iv"} \subseteq DOMAIN encLocals.http.body.d)

\* C19 (as claimed): when the key-issuance endpoint is unreachable, answers
\* with an error status or returns a body without requestId, encryptionKey
\* or iv, the handshake raises KeyIssuanceError and returns no envelope.
C19_KeyIssuanceError ==
    (EndpointUnreachable \/ ErrorStatus \/ MissingKeyField) =>
        /\ envelope.k = "raise"
        /\ envelope.cls = "KeyIssuanceError"

\* the attributes of the agent the claim names
ContextFields ==
    {"private_key", "wallet", "wallet_address", "rpc_url", "base_proxy_url", "api_version",
     "openai_api_key", "helius_api_key", "backpack_api_key", "backpack_api_secret", "jito_uuid"}

\* C20: no step of a manager, facade or tool-wrapper operation, successful or
\* failed, changes the agent's private key, wallet, wallet address, RPC URL,
\* proxy base URL, API version or third-party credentials.
C20_AgentImmutable ==
    [][/\ DOMAIN agent' = DOMAIN agent
       /\ \A f \in ContextFields : agent'[f] = agent[f]]_vars

\* C20 witness: two operations have been run on the agent, the first is
\* over and the second has ended with a failure envelope after the proxy
\* rejected it, and the agent is as its constructor left it
C20_Witness ==
    /\ started = 2
    /\ Len(posted) = 2
    /\ \E c \in Slots : Done(c) /\ op[c] \in EnvelopeOps /\ GotHttpError(c)
                         /\ IsFailureEnvelope(result[c].v)
    /\ agent = SolanaAgentKit(agent.private_key)
    /\ ContextFields \subseteq DOMAIN agent

\* the call in slot c is between its entry and its last response
InFlight(c) == pc[c] \in {"key", "post"}

\* C21: under every interleaving of the calls, the operation POST of a call
\* carries the request id and the ciphertext (key and IV) of that call's own
\* handshake and that call's own operation fields; no two calls post the same
\* request id; a call has no result while it waits, and its result comes
\* from its own response: the value and message of its own success body, the
\* error of its own rejection body, the failure of its own request.
C21_ConcurrentCallsIndependent ==
    /\ \A c \in Slots : \A i \in OpPosts(c) :
          LET payload == sent[c][i].json.d
          IN /\ keyReply[c] # Pending /\ keyReply[c].k = "response"
             /\ payload.requestId = keyReply[c].body.d.requestId
             /\ payload.encrypted_private_key.key.id = keyReply[c].body.d.encryptionKey.id
             /\ payload.encrypted_private_key.iv.id = keyReply[c].body.d.iv.id
             /\ payload.encrypted_private_key.plain = encode(padded_private_key(agent.private_key))
             /\ sent[c][i].url = Endpoint(agent, op[c])
             /\ \A p \in FieldParams(op[c], args[c]) : payload[WireName[p]] = args[c][p]
             /\ \A d \in Slots \ {c} : \A j \in OpPosts(d) :
                   sent[d][j].json.d.requestId # payload.requestId
    /\ \A c \in Slots :
          /\ InFlight(c) => result[c] = Pending
          /\ (Done(c) /\ RemoteSuccess(c)) =>
                result[c] = Ret(Success(ValueKey(op[c]), postReply[c].body.d.value,
                                        postReply[c].body.d.message))
          /\ (Done(c) /\ RemoteRejection(c)) =>
                result[c] = Ret(Failure(postReply[c].body.d.error))
          /\ (Done(c) /\ postReply[c] # Pending /\ postReply[c].k = "raise") =>
                result[c] = Ret(Failure(PyStr(postReply[c].msg)))
          /\ (Done(c) /\ GotHttpError(c)) =>
                result[c] = Ret(Failure(PyStr(StrOfExc(raise_for_status(postReply[c])))))
          /\ (Done(c) /\ keyReply[c] # Pending /\ keyReply[c].k = "raise") =>
                result[c] = Ret(Failure(PyStr(keyReply[c].msg)))

\* C21 witness: two calls of different operations overlap: the call whose
\* handshake came first still waits for its POST, with no result, while the
\* call whose handshake came second has ended with the value of its own
\* response
C21_Witness ==
    \E c, d \in Slots :
        /\ c # d /\ op[c] # op[d]
        /\ pc[c] = "post" /\ result[c] = Pending
        /\ Done(d) /\ RemoteSuccess(d)
        /\ keyReply[c].body.d.requestId = RequestId(1)
        /\ keyReply[d].body.d.requestId = RequestId(2)
        /\ posted = <<RequestId(1), RequestId(2)>>
        /\ result[d].v.d.transaction = PyStr("9kLm")

\* the text of the agent's private key, and the values a request carries
RawKey == PyKey(agent.private_key)
RequestValues(r) == IF r.json = None THEN {} ELSE {r.json.d[k] : k \in DOMAIN r.json.d}

\* C22 (as claimed): no request sent to the key-issuance endpoint or to an
\* operation endpoint carries the raw private key (the key travels as
\* ciphertext only), and no record written to the logger carries it.
C22_RawKeyNeverLeaves ==
    /\ \A c \in Slots : \A i \in DOMAIN sent[c] :
          /\ \A v \in RequestValues(sent[c][i]) : v # RawKey
          /\ sent[c][i].kind = "op" => sent[c][i].json.d.encrypted_private_key.t = "ct"
    /\ \A i \in DOMAIN logged : logged[i].value # RawKey

\* a finished run of SolanaMeteoraDLMMTool._arun
MeteoraDone ==
    /\ toolPc = "done"
    /\ tool.name = "SolanaMeteoraDLMMTool"
    /\ tool.entry = "_arun"
    /\ tool.given
ErrorResult(r) == r.k = "return" /\ r.v.t = "dict" /\ DictGet(r.v.d, "status") = PyStr("error")

\* C23 (as claimed): SolanaMeteoraDLMMTool forwards an input that has all
\* required keys and a documented activation_type ("Instant", "Delayed",
\* "Manual") to create_meteora_dlmm_pool, and answers an input that lacks a
\* required key with an error result without calling the facade.
C23_DocumentedActivationTypesAccepted ==
    MeteoraDone =>
        /\ tool.input \in {MeteoraInput(a) : a \in DocumentedActivationTypes}
              => facadeReply # Pending
        /\ tool.input = MeteoraInputNoFee
              => ErrorResult(toolResult) /\ facadeReply = Pending

\* the manager method behind the finished facade call ran to its end
ManagerCompleted == FacadeDone /\ facade.manager # Pending

\* C24 (as claimed): when the manager operation behind a facade method
\* completes with a result, the facade call returns that same result, and the
\* facade raises SolanaAgentKitError only when the manager operation raised.
C24_FacadeReturnsManagerResult ==
    ManagerCompleted =>
        /\ facade.manager.k = "return" => facadeResult = facade.manager
        /\ (facadeResult.k = "raise" /\ facadeResult.cls = "SolanaAgentKitError")
              => facade.manager.k = "raise"

\* a facade method that passes arguments on was called on the instance with
\* a value for each of its parameters and made its manager call
ForwardDone ==
    /\ FacadeDone
    /\ facade.method \in ForwardingMethods
    /\ facade.manager # Pending
Range(seq) == {seq[i] : i \in DOMAIN seq}

\* C25 (as claimed): a facade method passes every argument of its caller on
\* to the manager (sell_token passes amount), and the manager binds each to
\* the parameter of the same name (create_debridge_transaction binds
\* src_chain_id, check_transaction_status binds tx_hash, to the manager's
\* first parameter).
C25_ArgumentsForwardedInPlace ==
    ForwardDone =>
        /\ \A q \in Range(FacadeParams(facade.method)) : ArgValue(q) \in Range(facade.passed)
        /\ facade.method \in DeBridgeFacadeMethods =>
              LET bound == ManagerBinding(facade.method, facade.passed)
              IN /\ bound.k = "return"
                 /\ \A q \in DOMAIN bound.v : bound.v[q] = ArgValue(q)

\* the methods whose validation is one `if not all([...])` over the required
\* arguments
AllValidatedOps == ThreeLandOps \cup AdrenaOps \cup FlashOps \cup {"create_drift_user_account"}
\* the call in slot c was turned away before the handshake
RejectedByValidation(c) == pc[c] = "done" /\ sent[c] = <<>>

\* C26 (as claimed): the required-field validation of a proxy-backed method
\* rejects a call if and only if a required argument is absent (None or
\* empty); a call with every required argument supplied, a numeric 0
\* included, passes validation and reaches the handshake.
C26_RejectsIffRequiredAbsent ==
    \A c \in Slots :
        (pc[c] # "idle" /\ op[c] \in AllValidatedOps) =>
            (RejectedByValidation(c) <=> MissingRequired(op[c], args[c]))

\* the order in which the RPC calls of a transaction are made
RpcOrder == <<"get_latest_blockhash", "sign", "send_transaction", "confirm_transaction">>
IsPrefix(a, b) == Len(a) <= Len(b) /\ \A i \in DOMAIN a : a[i] = b[i]
TransactionRunning == run.fn \in TransactionFns
\* the call handed a transaction id back
ReturnedId == runPc = "done" /\ runResult.k = "return"
ConfirmationReturned == "confirmation" \in DOMAIN run /\ run.confirmation.k # "raise"
ConfirmationFailed == "confirmation" \in DOMAIN run /\ run.confirmation.k = "raise"

\* C27: in execute_debridge_transaction and SolanaWalletClient.send_transaction
\* the steps are made in the order fetch latest blockhash, sign, send,
\* confirm; the transaction id is handed back only after the confirmation
\* has returned; when the confirmation fails the call raises although the
\* transaction was sent; and execute_debridge_transaction with transaction
\* data lacking "data" raises before any RPC call.
C27_IdOnlyAfterConfirmation ==
    TransactionRunning =>
        /\ IsPrefix(trace, RpcOrder)
        /\ ReturnedId => (trace = RpcOrder /\ ConfirmationReturned
                          /\ runResult.v \in {run.tx_id, PyDict([hash |-> run.tx_id])})
        /\ ConfirmationFailed =>
              (runPc = "done" /\ runResult.k = "raise" /\ trace = RpcOrder)
        /\ (runPc = "done" /\ run.fn = "execute_debridge_transaction"
             /\ (run.input = None \/ "data" \notin DOMAIN run.input.d))
              => (runResult = Raise("Exception", "Invalid transaction data provided for execution.")
                  /\ trace = <<>>)
\* execute_debridge_transaction handed back the id after the confirmation
C27_Witness ==
    /\ run.fn = "execute_debridge_transaction"
    /\ ReturnedId
    /\ ConfirmationReturned
    /\ runResult = Ret(PyStr("sig2"))

\* a finished call of check_transaction_status, and the order ids its lookup
\* listed
StatusDone == runPc = "done" /\ run.fn = "check_transaction_status"
ListedIds ==
    IF OkJson(run.lookup).k = "return" /\ Contains(OkJson(run.lookup).v, "orderIds")
    THEN OkJson(run.lookup).v.d["orderIds"].l
    ELSE <<>>
StatusOk(i) == OkJson(run.replies[i]).k = "return"

\* C28 (as claimed): check_transaction_status returns one status per order
\* id listed, in the order listed, each with the orderLink of its own id; it
\* raises when the lookup fails or lists no ids; and when a status request
\* fails it raises, having made no request for the ids after it.
C28_StatusAllOrNothing ==
    StatusDone =>
        /\ ListedIds = <<>> => (runResult.k = "raise" /\ trace = <<"GET order-ids">>)
        /\ (ListedIds # <<>> /\ \A i \in DOMAIN ListedIds : StatusOk(i)) =>
              /\ runResult.k = "return"
              /\ Len(runResult.v.l) = Len(ListedIds)
              /\ \A i \in DOMAIN ListedIds :
                    runResult.v.l[i].d.orderLink =
                        PyStr("https://app.debridge.finance/order?orderId=" \o ListedIds[i].s)
        /\ \A i \in DOMAIN ListedIds :
              (~StatusOk(i) /\ \A j \in 1..(i - 1) : StatusOk(j)) =>
                  (runResult.k = "raise" /\ Len(trace) = 1 + i)

\* a finished call of create_coin; the authentication endpoint answered it
\* (or would have) with status 200 and a non-empty token
CoinDone == runPc = "done" /\ run.fn = "create_coin"
Authenticated ==
    /\ run.auth.k = "response"
    /\ run.auth.status = 200
    /\ json(run.auth).k = "return"
    /\ Truthy(DictGet(json(run.auth).v.d, "token"))
CoinRequests == {i \in DOMAIN trace : trace[i].url = "/coin/create"}

\* C29 (as claimed): create_coin sends the coin-creation request after the
\* authentication has returned status 200 with a non-empty token, with that
\* token, the first 64 characters of the name and the first 10 of the
\* symbol; when the authentication fails or yields no token it sends no
\* coin-creation request and raises.
C29_CoinAfterAuthentication ==
    CoinDone =>
        /\ \A i \in CoinRequests : i = 2 /\ trace[1].url = "/auth/verify-signature"
        /\ (Authenticated /\ run.input.image_path = "token.jpg") =>
              /\ CoinRequests = {2}
              /\ trace[2].bearer = json(run.auth).v.d["token"]
              /\ trace[2].data.name = Take(run.input.name, 64)
              /\ trace[2].data.symbol = Take(run.input.symbol, 10)
        /\ ~Authenticated => (CoinRequests = {} /\ runResult.k = "raise")

\* the call in slot 1 is waiting for a request; it has ended
Waiting1 == pc[1] \in {"key", "post"}
Ended1 == pc[1] = "done" /\ result[1].k = "return"

\* C30 (as claimed): every proxy-backed call, each request of which is
\* answered in the end, returns an envelope in the end, after at most two
\* requests and without waiting on another call.
C30_EveryCallReturnsEnvelope ==
    /\ [](\A c \in Slots : Len(sent[c]) <= 2)
    /\ [](\A c \in Slots : Done(c) => (result[c].k = "return" /\ IsEnvelope(result[c].v)))
    /\ Waiting1 ~> Ended1

\* C30 (amended): every proxy-backed call, each request of which is answered
\* in the end, returns in the end without raising, after at most two
\* requests and without waiting on another call; what it returns is an
\* envelope for the Drift, Adrena, Flash and 3Land methods and the bare
\* remote value or None for the AllDomains methods.
C30_EveryCallReturns ==
    /\ [](\A c \in Slots : Len(sent[c]) <= 2)
    /\ [](\A c \in Slots : Done(c) => result[c].k = "return")
    /\ [](\A c \in Slots : (Done(c) /\ op[c] \in EnvelopeOps) => IsEnvelope(result[c].v))
    /\ Waiting1 ~> Ended1
\* the call in slot 1 has ended after two requests while the call in slot 2
\* is still waiting for its operation POST
C30_Witness ==
    /\ Ended1
    /\ Len(sent[1]) = 2
    /\ op[1] = "get_all_domains_tlds"
    /\ result[1].v = None
    /\ pc[2] = "post"

====
